---------------------------- MODULE Spec2Model ----------------------------
(***************************************************************************)
(* A model of bin/wikidot_to_html.py: the two-pass document driver         *)
(* (BlockParser), the table renderer (Table.close) and the inline parser   *)
(* with its node tree (InlineParser, Node.__str__).                        *)
(*                                                                         *)
(* Input lines are abstracted by what the driver's regular expressions     *)
(* see of them: the number of leading '>' markers, the shape of the text   *)
(* that follows, and whether the line ends with the continuation marker    *)
(* ' _'.  Inline content of a driver line is plain text.                   *)
(***************************************************************************)
EXTENDS Integers, Sequences, FiniteSets, TLC

\* ------------------------------------------------------------------ bounds
MaxLen == 3       \* longest document, in lines
MaxBq == 2        \* deepest blockquote marker of an input line

\* ------------------------------------------------------------- input lines
\* kind: the text after the blockquote markers and before a trailing ' _'
\*   toc        [[toc]]            divstart   [[div]]      divend  [[/div]]
\*   codestart  [[code]]           codeend    [[/code]]
\*   mathstart  [[math]]           mathend    [[/math]]
\*   ul         * item             hn         + Title      hr      ----
\*   table      ||a||              tstart     ||a          empty   (blank)
\*   p          any other text
Kinds ==
    {"toc", "divstart", "divend", "codestart", "codeend", "mathstart",
     "mathend", "ul", "hn", "hr", "table", "tstart", "empty", "p"}

\* The line shapes documents are built from: every kind at depth 0 without
\* the continuation marker, the accumulating kinds with it, and quoted
\* paragraphs, headers, blank lines and container markers.
InputLine(l) ==
    \/ l.bq = 0 /\ ~l.br
    \/ l.bq = 0 /\ l.br /\ l.kind \in {"p", "hn", "table"}
    \/ l.bq = 1 /\ ~l.br /\ l.kind \in {"p", "divstart", "divend", "empty"}
    \/ l.bq = 1 /\ l.br /\ l.kind = "p"
    \/ l.bq > 1 /\ ~l.br /\ l.kind = "p"

Lines == {l \in [bq : 0..MaxBq, kind : Kinds, br : BOOLEAN] : InputLine(l)}

VARIABLES
    input_lines,   \* BlockParser.input_lines
    pass,          \* 1: _process_lines(NullOutputStream()), 2: _process_lines(output_stream)
    lineno,        \* number of lines the running pass has processed
    pc,            \* "lines" | "eof" (pass ended) | "done" | "failed"
    bp,            \* BlockParser: current_block, bq_level, continued_line, divs, toc
    wikidot,       \* Wikidot: toc, next_toc_number, next_eqn_number
    out,           \* what has been written to the caller's output stream
    nul,           \* history: what has been handed to NullOutputStream.write
    line,          \* the loop variable line of _process_lines
    err            \* what has been written to sys.stderr

driver_vars == <<input_lines, pass, lineno, pc, bp, wikidot, out, nul, line, err>>


\* ------------------------------------------------------------------ output
\* One write to an output stream (consecutive writes of one element merged):
\*   ev   what is written            typ  tag or block type
\*   at   first input line of the block, or the line of a [[toc]] (0: none)
\*   num  anchor / equation / colspan number (-1: none)
\*   ents the lines of a block, the entries of a table of contents, or the
\*        content of a cell
Ev(ev, typ, at, num, ents) ==
    [ev |-> ev, typ |-> typ, at |-> at, num |-> num, ents |-> ents]

Tag(ev) == Ev(ev, "", 0, -1, <<>>)

\* ------------------------------------------------------------------- table
\* The content of one line of a table block is a sequence of tokens: the
\* row delimiter "||" or a non-empty cell text ("a": plain text, "h": the
\* header cell "~ a"); two cell texts are never adjacent.
MaxRows == 3      \* most lines of one table block
MaxToks == 4      \* most tokens of one table line

CellTexts == {"a", "h"}

TableTokens == {"||"} \cup CellTexts

WellFormedContent(c) ==
    \A i \in 1..(Len(c) - 1) : c[i] = "||" \/ c[i + 1] = "||"

TableContents ==
    {c \in UNION {[1..n -> TableTokens] : n \in 0..MaxToks} : WellFormedContent(c)}

\* RX_FULL_ROW, RX_START_ROW, RX_END_ROW on a content
IsFullRow(c) == Len(c) >= 2 /\ c[1] = "||" /\ c[Len(c)] = "||"

IsStartRow(c) == Len(c) >= 1 /\ c[1] = "||"

IsEndRow(c) == Len(c) >= 1 /\ c[Len(c)] = "||"

\* the group 'row' of each pattern
FullRowGroup(c) == SubSeq(c, 2, Len(c) - 1)

StartRowGroup(c) == SubSeq(c, 2, Len(c))

EndRowGroup(c) == SubSeq(c, 1, Len(c) - 1)

RECURSIVE SplitFrom(_, _, _, _)
SplitFrom(row, i, cur, acc) ==
    IF i > Len(row) THEN Append(acc, cur)
    ELSE IF row[i] = "||" THEN SplitFrom(row, i + 1, "", Append(acc, cur))
    ELSE SplitFrom(row, i + 1, row[i], acc)

\* row.split('||'): never empty; "" between two delimiters and at an edge
row_to_cells(row) == SplitFrom(row, 1, "", <<>>)

\* Table fields used by close(); parser is the cell's InlineParser (its
\* top node's children so far), or absent before the first start_cell().
NoParser == [some |-> FALSE, parts |-> <<>>]

NewTable ==
    [cell_type |-> "td", colspan |-> 1, text_align |-> "None",
     cell_content |-> "", parser |-> NoParser, inside_cell |-> FALSE,
     out |-> <<>>, failed |-> FALSE]

TFail(t) == [t EXCEPT !.failed = TRUE]

TWrite(t, e) == IF t.failed THEN t ELSE [t EXCEPT !.out = Append(@, e)]

start_cell(t) ==
    IF t.failed THEN t ELSE [t EXCEPT !.parser = [some |-> TRUE, parts |-> <<>>]]

\* self.parser.parse(...): an AttributeError when no cell was ever started
add_cell_content(t, content) ==
    IF t.failed THEN t
    ELSE IF ~t.parser.some THEN TFail(t)
    ELSE [t EXCEPT !.parser.parts = Append(@, content)]

add_line_break(t) ==
    IF t.failed THEN t
    ELSE IF ~t.parser.some THEN TFail(t)
    ELSE [t EXCEPT !.parser.parts = Append(@, "br")]

analyze_cell(t, cell) ==
    IF t.failed THEN t
    ELSE LET tag == IF cell = "h" THEN "~" ELSE IF cell = "c" THEN "=" ELSE ""
             content == IF cell \in {"h", "c"} THEN "a" ELSE cell
         IN [t EXCEPT !.cell_content = content,
                      !.cell_type = IF tag = "~" THEN "th" ELSE "td",
                      !.text_align = IF tag = "=" THEN "center" ELSE ""]

\* the colspan attribute of the cell tag; 1 stands for no attribute
open_cell_tag(t) == IF t.colspan > 1 THEN t.colspan ELSE 1

end_cell(t) ==
    IF t.failed THEN t
    ELSE IF ~t.parser.some THEN TFail(t)
    ELSE TWrite(t, Ev("cell", t.cell_type, 0, open_cell_tag(t), t.parser.parts))

SetColspan(t, n) == IF t.failed THEN t ELSE [t EXCEPT !.colspan = n]

print_middle_of_cell(t, cell) == add_line_break(add_cell_content(t, cell))

\* self.add_cell_content(self.cell_content)
AddAnalyzedContent(t) == add_cell_content(t, t.cell_content)

print_start_of_cell(t, cell) ==
    SetColspan(add_line_break(AddAnalyzedContent(start_cell(analyze_cell(t, cell)))), 1)

print_end_of_cell(t, cell) == end_cell(add_cell_content(t, cell))

print_full_cell(t, cell) ==
    SetColspan(end_cell(AddAnalyzedContent(start_cell(analyze_cell(t, cell)))), 1)

\* the loop of print_cells over cells
RECURSIVE PrintMiddleCells(_, _, _)
PrintMiddleCells(t, cells, i) ==
    IF i > Len(cells) \/ t.failed THEN t
    ELSE IF cells[i] = ""
    THEN PrintMiddleCells(SetColspan(t, t.colspan + 1), cells, i + 1)
    ELSE PrintMiddleCells(print_full_cell(t, cells[i]), cells, i + 1)

\* first_cell, last_cell, lone_cell: <<>> for None, <<cell>> otherwise
PrintLoneCell(t, lone_cell) ==
    IF lone_cell # <<>> THEN print_middle_of_cell(t, lone_cell[1]) ELSE t

PrintFirstCell(t, first_cell) ==
    IF first_cell # <<>> THEN print_end_of_cell(t, first_cell[1]) ELSE t

PrintLastCell(t, last_cell) ==
    IF last_cell # <<>> THEN print_start_of_cell(t, last_cell[1]) ELSE t

print_cells(t, first_cell, cells, last_cell, lone_cell) ==
    PrintLastCell(
        PrintMiddleCells(
            PrintFirstCell(PrintLoneCell(SetColspan(t, 1), lone_cell), first_cell),
            cells, 1),
        last_cell)

SetInside(t, b) == IF t.failed THEN t ELSE [t EXCEPT !.inside_cell = b]

\* the four branches of the loop of Table.close
FullRow(t, cells) ==
    IF t.inside_cell THEN TFail(t)
    ELSE SetInside(TWrite(print_cells(TWrite(t, Tag("tr")), <<>>, cells, <<>>, <<>>),
                          Tag("/tr")), FALSE)

StartRow(t, cells) ==
    IF t.inside_cell THEN TFail(t)
    ELSE SetInside(print_cells(TWrite(t, Tag("tr")), <<>>,
                               SubSeq(cells, 1, Len(cells) - 1), <<cells[Len(cells)]>>,
                               <<>>), TRUE)

EndRow(t, cells) ==
    IF ~t.inside_cell THEN TFail(t)
    ELSE SetInside(TWrite(print_cells(t, <<cells[1]>>, Tail(cells), <<>>, <<>>),
                          Tag("/tr")), FALSE)

MiddleRow(t, cells) ==
    IF Len(cells) = 1
    THEN SetInside(print_cells(t, <<>>, <<>>, <<>>, <<cells[1]>>), TRUE)
    ELSE SetInside(print_cells(t, <<cells[1]>>, SubSeq(cells, 2, Len(cells) - 1),
                               <<cells[Len(cells)]>>, <<>>), TRUE)

\* one iteration of the loop of Table.close over self.matches
TableRow(t, content) ==
    IF t.failed THEN t
    ELSE IF IsFullRow(content) THEN FullRow(t, row_to_cells(FullRowGroup(content)))
    ELSE IF IsStartRow(content) THEN StartRow(t, row_to_cells(StartRowGroup(content)))
    ELSE IF IsEndRow(content) THEN EndRow(t, row_to_cells(EndRowGroup(content)))
    ELSE MiddleRow(t, row_to_cells(content))

TableOpen(t) == TWrite(t, Tag("table"))

TableEnd(t) == TWrite(t, Tag("/table"))

RECURSIVE TableRows(_, _, _)
TableRows(t, matches, i) ==
    IF i > Len(matches) \/ t.failed THEN t
    ELSE TableRows(TableRow(t, matches[i]), matches, i + 1)

\* Table.close as one call: the writes it makes and whether it raised
TableClose(matches) == TableEnd(TableRows(TableOpen(NewTable), matches, 1))

\* Rendering one table block step by step
VARIABLES
    t_matches,     \* Table.matches: the content of each line of the block
    t_i,           \* lines rendered so far
    t_pc,          \* "open" | "rows" | "done" | "failed"
    table          \* the Table's fields and what it has written

table_vars == <<t_matches, t_i, t_pc, table>>

\* A table block starts with a line RX_TABLE matches; the lines after it are
\* table lines or lines of any shape appended after a continuation marker.
TableInit ==
    /\ t_matches \in UNION {[1..n -> TableContents] : n \in 1..MaxRows}
    /\ IsStartRow(t_matches[1])
    /\ t_i = 0
    /\ t_pc = "open"
    /\ table = NewTable

TableStart ==
    /\ t_pc = "open"
    /\ table' = TableOpen(table)
    /\ t_pc' = "rows"
    /\ UNCHANGED <<t_matches, t_i>>

TableLine ==
    /\ t_pc = "rows"
    /\ t_i < Len(t_matches)
    /\ LET t1 == TableRow(table, t_matches[t_i + 1])
       IN /\ table' = t1
          /\ t_pc' = IF t1.failed THEN "failed" ELSE "rows"
    /\ t_i' = t_i + 1
    /\ UNCHANGED t_matches

TableFinish ==
    /\ t_pc = "rows"
    /\ t_i = Len(t_matches)
    /\ table' = TableEnd(table)
    /\ t_pc' = "done"
    /\ UNCHANGED <<t_matches, t_i>>


\* ------------------------------------------------------------------ driver
\* A line as _process_lines sees it after adjust_blockquote_level: quoted
\* when its '>' markers are still in front of it, br when it still ends
\* with ' _'.
RawLine(l) == [quoted |-> l.bq > 0, kind |-> l.kind, br |-> l.br]

\* RX_BLOCKQUOTE's group 'content': the markers and one trailing ' _' removed
BlockquoteContent(l) == [quoted |-> FALSE, kind |-> l.kind, br |-> FALSE]

IsTocLiteral(e) == ~e.quoted /\ e.kind = "toc" /\ ~e.br

MatchesDivStart(e) == ~e.quoted /\ e.kind = "divstart" /\ ~e.br

MatchesDivEnd(e) == ~e.quoted /\ e.kind = "divend" /\ ~e.br

MatchesCodeStart(e) == ~e.quoted /\ e.kind = "codestart"

MatchesCodeEnd(e) == ~e.quoted /\ e.kind = "codeend" /\ ~e.br

MatchesMathStart(e) == ~e.quoted /\ e.kind = "mathstart"

MatchesMathEnd(e) == ~e.quoted /\ e.kind = "mathend" /\ ~e.br

MULTILINE_BLOCK_TYPES == {"code", "math", "ol", "p", "table", "ul"}

\* Mutant of analyze_line: the list, heading and rule patterns are tried
\* whatever the open block is.
analyze_line_any_block(e, current_type) ==
    IF e.kind = "ul" THEN "ul"
    ELSE IF e.kind = "hn" THEN "_hn"
    ELSE IF e.kind = "hr" THEN "hr"
    ELSE IF e.kind \in {"table", "tstart"} THEN "table"
    ELSE IF e.kind = "empty" THEN "_empty"
    ELSE "p"

\* the block type analyze_line returns for a line, given the open block's type
analyze_line(e, current_type) ==
    IF current_type # "table" /\ e.kind = "ul" THEN "ul"
    ELSE IF current_type # "table" /\ e.kind = "hn" THEN "_hn"
    ELSE IF current_type # "table" /\ e.kind = "hr" THEN "hr"
    ELSE IF e.kind \in {"table", "tstart"} THEN "table"
    ELSE IF e.kind = "empty" THEN "_empty"
    ELSE "p"

\* the group 'content' of the line's match, as Table.close reads it
MatchContent(e) ==
    IF e.kind = "table" THEN <<"||", "a", "||">>
    ELSE IF e.kind = "tstart" THEN <<"||", "a">>
    ELSE IF e.kind \in {"empty", "hr"} THEN <<>>
    ELSE <<"a">>

NoBlock ==
    [block_type |-> "none", linenos |-> <<>>, matches |-> <<>>,
     input_nesting_level |-> 0, output_nesting_level |-> 0,
     toc_number |-> -1, eqn_number |-> -1]

\* What the driver's operations act on: the BlockParser, the Wikidot context,
\* the output streams, and whether an exception is propagating.
World(b, wk, o, n, er) ==
    [bp |-> b, wikidot |-> wk, out |-> o, nul |-> n, err |-> er, failed |-> FALSE]

\* sys.stderr.write of a message with a line number and, from the driver,
\* the text of a line
Stderr(w, src, n, text) ==
    [w EXCEPT !.err = Append(@, [src |-> src, lineno |-> n, line |-> text])]

NullOutputStream_write(w, evs) == [w EXCEPT !.nul = @ \o evs]

\* output_stream.write on the stream of the running pass
Write(w, stream, evs) ==
    IF w.failed THEN w
    ELSE IF stream = "null" THEN NullOutputStream_write(w, evs)
    ELSE [w EXCEPT !.out = @ \o evs]

Raise(w) == [w EXCEPT !.failed = TRUE]

\* Block.__init__ and the subclass constructors
NewBlock(block_type, e, n) ==
    [NoBlock EXCEPT !.block_type = block_type, !.linenos = <<n>>,
                    !.matches = <<MatchContent(e)>>]

\* TOC.add_header: level, anchor number and text (the header's line)
add_header(headers, level, toc_number, n) ==
    Append(headers, [n |-> level, toc_number |-> toc_number, text |-> n])

\* Header.__init__
NewHeader(w, e, n) ==
    LET k == w.wikidot.next_toc_number
    IN [w EXCEPT !.bp.current_block = [NewBlock("_hn", e, n) EXCEPT !.toc_number = k],
                 !.wikidot.next_toc_number = k + 1,
                 !.wikidot.toc = add_header(@, 1, k, n)]

\* Math.__init__
NewMath(w, e, n) ==
    LET k == w.wikidot.next_eqn_number
    IN [w EXCEPT !.bp.current_block = [NewBlock("math", e, n) EXCEPT !.eqn_number = k],
                 !.wikidot.next_eqn_number = k + 1]

block_factory(w, e, n, block_type) ==
    IF w.failed THEN w
    ELSE IF block_type = "_hn" THEN NewHeader(w, e, n)
    ELSE IF block_type = "math" THEN NewMath(w, e, n)
    ELSE [w EXCEPT !.bp.current_block = NewBlock(block_type, e, n)]

\* Block.add_line: the mismatch test of a line that does not continue
add_line(w, e, n, block_type, continued) ==
    IF w.failed THEN w
    ELSE IF ~continued /\ block_type \notin {"p", "_empty", w.bp.current_block.block_type}
    THEN Raise([w EXCEPT !.bp.current_block.linenos = Append(@, n)])
    ELSE [w EXCEPT !.bp.current_block.linenos = Append(@, n),
                   !.bp.current_block.matches = Append(@, MatchContent(e))]

\* the index i of the loop of Table.close at which it raises
FailedRow(matches) ==
    CHOOSE i \in DOMAIN matches :
        /\ TableRows(TableOpen(NewTable), SubSeq(matches, 1, i), 1).failed
        /\ ~TableRows(TableOpen(NewTable), SubSeq(matches, 1, i - 1), 1).failed

\* Table.close as the driver sees it: what reaches the stream, and the raise
\* with its message on sys.stderr
TableBlockClose(w, stream, b) ==
    IF TableClose(b.matches).failed
    THEN Raise(Stderr(Write(w, stream,
                            <<Ev("partial", "table", b.linenos[1], -1, b.linenos)>>),
                      "Table.close", b.linenos[FailedRow(b.matches)], "none"))
    ELSE Write(w, stream, <<Ev("block", "table", b.linenos[1], -1, b.linenos)>>)

\* the number a block's open tag carries: Header.toc_number, Math.eqn_number
BlockNumber(b) ==
    IF b.block_type = "_hn" THEN b.toc_number
    ELSE IF b.block_type = "math" THEN b.eqn_number
    ELSE -1

\* RX_EMPTY_PARAGRAPH.search(content), a multi-line pattern: some line of the
\* rendered paragraph holds nothing but line breaks and whitespace
EmptyParagraph(b) == \E i \in DOMAIN b.matches : b.matches[i] = <<>>

\* <block>.close(output_stream) of each Block subclass
BlockClose(w, stream, b) ==
    IF b.block_type = "_empty" THEN w
    ELSE IF b.block_type = "p" /\ EmptyParagraph(b) THEN w
    ELSE IF b.block_type = "table" THEN TableBlockClose(w, stream, b)
    ELSE Write(w, stream,
               <<Ev("block", b.block_type, b.linenos[1], BlockNumber(b), b.linenos)>>)

ClearCurrentBlock(w) == IF w.failed THEN w ELSE [w EXCEPT !.bp.current_block = NoBlock]

close_current_block(w, stream) ==
    IF w.failed \/ w.bp.current_block.block_type = "none" THEN w
    ELSE ClearCurrentBlock(BlockClose(w, stream, w.bp.current_block))

RECURSIVE Repeat(_, _)
Repeat(e, n) == IF n <= 0 THEN <<>> ELSE <<e>> \o Repeat(e, n - 1)

\* Mutant of CloseOnLevelChange: the open block stays open when the depth
\* changes.
CloseOnLevelChange_block_kept(w, stream, new_bq_level) == w

\* adjust_blockquote_level, lines 1566-1567
CloseOnLevelChange(w, stream, new_bq_level) ==
    IF new_bq_level # w.bp.bq_level THEN close_current_block(w, stream) ELSE w

\* adjust_blockquote_level, lines 1569-1574
WriteBlockquoteTags(w, stream, new_bq_level) ==
    IF w.failed THEN w
    ELSE IF new_bq_level > w.bp.bq_level
    THEN Write(w, stream, Repeat(Tag("blockquote"), new_bq_level - w.bp.bq_level))
    ELSE Write(w, stream, Repeat(Tag("/blockquote"), w.bp.bq_level - new_bq_level))

SetBqLevel(w, new_bq_level) ==
    IF w.failed THEN w ELSE [w EXCEPT !.bp.bq_level = new_bq_level]

\* adjust_blockquote_level without its return value; bq: the line's '>' markers
adjust_blockquote_level(w, stream, bq) ==
    IF w.failed \/ w.bp.current_block.block_type = "code" THEN w
    ELSE SetBqLevel(WriteBlockquoteTags(CloseOnLevelChange(w, stream, bq), stream, bq), bq)

\* the line adjust_blockquote_level returns
AdjustedLine(w, l) ==
    IF w.bp.current_block.block_type = "code" THEN RawLine(l)
    ELSE IF l.bq > 0 THEN BlockquoteContent(l)
    ELSE RawLine(l)

\* Mutant of toc_close: the placeholder reads the registry pass 2 is filling
\* (self.wikidot.toc) instead of the one pass 1 collected (self.toc).
toc_close_running_registry(w, stream, n) ==
    Write(w, stream, <<Ev("toc", "", n, -1, w.wikidot.toc)>>)

\* TOC.close
toc_close(w, stream, n) == Write(w, stream, <<Ev("toc", "", n, -1, w.bp.toc.headers)>>)

\* check_for_div: whether the line is a div marker
IsDivLine(e) == MatchesDivStart(e) \/ MatchesDivEnd(e)

\* self.divs.append(Div(...)): Div.__init__ writes the open tag
PushDiv(w, stream) ==
    IF w.failed THEN w
    ELSE Write([w EXCEPT !.bp.divs = Append(@, "div")], stream, <<Tag("div")>>)

\* if self.divs: self.divs.pop().close(output_stream)
PopDiv(w, stream) ==
    IF w.failed \/ w.bp.divs = <<>> THEN w
    ELSE Write([w EXCEPT !.bp.divs = SubSeq(@, 1, Len(@) - 1)], stream, <<Tag("/div")>>)

check_for_div(w, stream, e) ==
    IF w.failed THEN w
    ELSE IF MatchesDivStart(e) THEN PushDiv(close_current_block(w, stream), stream)
    ELSE IF MatchesDivEnd(e) THEN PopDiv(close_current_block(w, stream), stream)
    ELSE w

\* defined by the program and called from nowhere
close_divs(w, stream) ==
    IF w.failed THEN w
    ELSE Write([w EXCEPT !.bp.divs = <<>>], stream, Repeat(Tag("/div"), Len(w.bp.divs)))

\* block_type_and_match: the block type it returns ("none" for None)
BlockTypeOf(w, e) ==
    IF w.bp.current_block.block_type = "code"
    THEN IF MatchesCodeStart(e) \/ MatchesCodeEnd(e) THEN "none" ELSE "code"
    ELSE IF w.bp.current_block.block_type = "math"
    THEN IF MatchesMathStart(e) \/ MatchesMathEnd(e) THEN "none" ELSE "math"
    ELSE IF w.bp.bq_level = 0 /\ MatchesCodeStart(e) THEN "code"
    ELSE IF w.bp.bq_level = 0 /\ MatchesMathStart(e) THEN "math"
    ELSE analyze_line(e, w.bp.current_block.block_type)

\* Mutant of FenceLine: a closing fence always decrements input_nesting_level
\* and never closes the block.
FenceLine_close_decrements(w, stream, starts, ends) ==
    IF starts
    THEN [w EXCEPT !.bp.current_block.input_nesting_level = @ + 1,
                   !.bp.current_block.output_nesting_level = @ + 1]
    ELSE IF ends
    THEN [w EXCEPT !.bp.current_block.input_nesting_level = @ - 1]
    ELSE w

\* block_type_and_match inside a Code or Math block
FenceLine(w, stream, starts, ends) ==
    IF starts
    THEN [w EXCEPT !.bp.current_block.input_nesting_level = @ + 1,
                   !.bp.current_block.output_nesting_level = @ + 1]
    ELSE IF ends
    THEN IF w.bp.current_block.input_nesting_level = 0
         THEN close_current_block(w, stream)
         ELSE [w EXCEPT !.bp.current_block.input_nesting_level = @ - 1]
    ELSE w

\* block_type_and_match: what it does to the open block
block_type_and_match(w, stream, e) ==
    IF w.failed THEN w
    ELSE IF w.bp.current_block.block_type = "code"
    THEN FenceLine(w, stream, MatchesCodeStart(e), MatchesCodeEnd(e))
    ELSE IF w.bp.current_block.block_type = "math"
    THEN FenceLine(w, stream, MatchesMathStart(e), MatchesMathEnd(e))
    ELSE IF w.bp.bq_level = 0 /\ (MatchesCodeStart(e) \/ MatchesMathStart(e))
    THEN close_current_block(w, stream)
    ELSE w

SetContinued(w, br) == IF w.failed THEN w ELSE [w EXCEPT !.bp.continued_line = br]

\* Mutant of AddToBlock: a line whose type differs from the open block's is
\* handed to add_line as a line that does not continue.
AddToBlock_mismatch(w, stream, e, n, block_type) ==
    IF w.bp.current_block.block_type = "none" THEN block_factory(w, e, n, block_type)
    ELSE add_line(w, e, n, block_type, w.bp.continued_line)

\* _process_lines, lines 1671-1693
AddToBlock(w, stream, e, n, block_type) ==
    IF w.bp.current_block.block_type = "none" THEN block_factory(w, e, n, block_type)
    ELSE IF w.bp.continued_line THEN add_line(w, e, n, block_type, TRUE)
    ELSE IF /\ block_type = w.bp.current_block.block_type
            /\ w.bp.current_block.block_type \in MULTILINE_BLOCK_TYPES
    THEN add_line(w, e, n, block_type, FALSE)
    ELSE block_factory(close_current_block(w, stream), e, n, block_type)

\* _process_lines, lines 1665-1698: the classified line
Dispatch(w, stream, e, n, block_type) ==
    IF w.failed \/ block_type = "none" THEN w
    ELSE IF block_type = "_empty" /\ w.bp.bq_level > 0 THEN w
    ELSE SetContinued(AddToBlock(w, stream, e, n, block_type), e.br)

\* _process_lines, lines 1657-1664: the line adjust_blockquote_level returned
AdjustedLineStep(w, stream, e, n) ==
    IF w.failed THEN w
    ELSE IF IsTocLiteral(e) /\ w.bp.toc.set THEN toc_close(w, stream, n)
    ELSE IF IsDivLine(e) THEN check_for_div(w, stream, e)
    ELSE Dispatch(block_type_and_match(w, stream, e), stream, e, n, BlockTypeOf(w, e))

\* the body of the loop of _process_lines for input line n
ProcessLine(w, stream, l, n) ==
    AdjustedLineStep(adjust_blockquote_level(w, stream, l.bq), stream,
                     AdjustedLine(w, l), n)

\* the value of the loop variable line after the iteration: the stripped
\* line, or what adjust_blockquote_level was handed when it raised
LoopLine(w, stream, l) ==
    IF adjust_blockquote_level(w, stream, l.bq).failed THEN RawLine(l)
    ELSE AdjustedLine(w, l)

\* except Exception: sys.stderr.write("ERROR at line {}: {}") and raise
ExceptHandler(w, n, text) ==
    IF w.failed THEN Stderr(w, "_process_lines", n, text) ELSE w

\* Mutant of EndOfInput: the final adjust_blockquote_level(output_stream, '')
\* is left out.
EndOfInput_no_final_adjust(w, stream) == close_current_block(w, stream)

\* after the loop: close_current_block, adjust_blockquote_level(output_stream, '')
EndOfInput(w, stream) ==
    adjust_blockquote_level(close_current_block(w, stream), stream, 0)

\* Mutant of Stream: pass 1 is handed the caller's stream.
Stream_caller_in_both_passes(p) == "caller"

\* the stream process_lines hands to each call of _process_lines
Stream(p) == IF p = 1 THEN "null" ELSE "caller"

NewTOC == <<>>

NewBlockParser ==
    [current_block |-> NoBlock, bq_level |-> 0, continued_line |-> FALSE,
     divs |-> <<>>, toc |-> [set |-> FALSE, headers |-> <<>>]]

NewWikidot == [toc |-> NewTOC, next_toc_number |-> 0, next_eqn_number |-> 1]


\* ----------------------------------------------------------- inline parser
\* A block's content as the lexer hands it to InlineParser.parse: one token
\* list per line.  Tokens are the words, white space, the doubled markers
\* of bold and italic, and the markers of generic and colored spans.
MaxInlineToks == 5     \* tokens of a one-line block
MaxItemToks == 2       \* tokens of each line of a two-line block

OPEN_NODE == 0
CLOSED_NODE == -1
LINE_BREAK == "<br />"

InlineTokens ==
    {"abc", " ", "**", "//", "[[span a]]", "[[/span]]", "##red|", "##"}

RX_WHITESPACE(token) == token = " "

\* str_lex joins adjacent word characters and adjacent white space, and the
\* block regexes strip the content of a line.
WellFormedTokens(s) ==
    /\ ~RX_WHITESPACE(s[1])
    /\ ~RX_WHITESPACE(s[Len(s)])
    /\ \A i \in 1..(Len(s) - 1) : ~(s[i] = s[i + 1] /\ s[i] \in {"abc", " "})

VARIABLES
    i_block,          \* "p" (Paragraph) or "ul" (List)
    i_lines,          \* self.matches: content tokens and br of each line
    i_line,           \* lines done
    i_tok,            \* tokens of the current line done
    parser,           \* the block's InlineParser, with the nodes it made
    node_tag_indent,  \* List.close: the top node of each finished item
    i_out,            \* the rendered inline content
    i_pc              \* "idle", "parse", "done" or "failed"

inline_vars ==
    <<i_block, i_lines, i_line, i_tok, parser, node_tag_indent, i_out, i_pc>>

\* Node.__init__; the tags are kept by class (open_tag, close_tag)
NewNode(cls, raw_tag) ==
    [cls |-> cls, raw_tag |-> raw_tag, children |-> <<>>, closure |-> OPEN_NODE]

\* the element of a class's open_tag and close_tag, attributes left out
open_tag(cls) ==
    CASE cls = "Italic" -> "em"
      [] cls = "Bold" -> "strong"
      [] cls = "FixedWidth" -> "tt"
      [] OTHER -> "span"

\* the raw_tag a class's constructor defaults to
DefaultRawTag(cls) ==
    IF cls = "Italic" THEN "//" ELSE IF cls = "FixedWidth" THEN "{{" ELSE "**"

\* the classes whose constructor has no default for raw_tag and tag
NeedsTag == {"Span", "Color", "Size", "Literal", "HTMLEntityLiteral"}

\* a child of a node: a node (its index in heap) or a string
Child(nd, text) == [node |-> nd, text |-> text]

NewInlineParser ==
    [heap |-> <<NewNode("Node", "")>>, top_node |-> 1, nodes |-> <<1>>,
     italic |-> FALSE, bold |-> FALSE, span_depth |-> 0, color |-> FALSE,
     size |-> FALSE, fixed_width |-> FALSE,
     comment |-> FALSE, escape_literal |-> FALSE, no_escape_literal |-> FALSE,
     failed |-> FALSE, error |-> ""]

PFail(p, why) == IF p.failed THEN p ELSE [p EXCEPT !.failed = TRUE, !.error = why]

Last(s) == s[Len(s)]

Front(s) == SubSeq(s, 1, Len(s) - 1)

SpanDepth(p, d) ==
    IF p.span_depth + d < 0 THEN PFail(p, "negative span depth")
    ELSE [p EXCEPT !.span_depth = @ + d]

set_flag(p, cls, value) ==
    IF p.failed THEN p
    ELSE CASE cls = "Italic" -> [p EXCEPT !.italic = value]
           [] cls = "Bold" -> [p EXCEPT !.bold = value]
           [] cls = "Span" -> SpanDepth(p, IF value THEN 1 ELSE -1)
           [] cls = "Color" -> [p EXCEPT !.color = value]
           [] cls = "Size" -> [p EXCEPT !.size = value]
           [] cls = "FixedWidth" -> [p EXCEPT !.fixed_width = value]
           [] cls = "Literal" -> [p EXCEPT !.escape_literal = value]
           [] cls = "HTMLEntityLiteral" -> [p EXCEPT !.no_escape_literal = value]
           [] OTHER -> p

SetClosure(p, nd, c) == IF p.failed THEN p ELSE [p EXCEPT !.heap[nd].closure = c]

\* nodes[-1].children.append(nd); nodes.append(nd)
PushNode(p, cls, raw_tag) ==
    [p EXCEPT !.heap = Append([@ EXCEPT ![Last(p.nodes)].children =
                                   Append(@, Child(Len(p.heap) + 1, ""))],
                              NewNode(cls, raw_tag)),
              !.nodes = Append(@, Len(p.heap) + 1)]

add_node(p, cls, raw_tag) ==
    IF p.failed THEN p ELSE set_flag(PushNode(p, cls, raw_tag), cls, TRUE)

add_text(p, s) ==
    IF p.failed THEN p
    ELSE [p EXCEPT !.heap[Last(p.nodes)].children = Append(@, Child(0, s))]

PopNode(p) == [p EXCEPT !.nodes = Front(@)]

RECURSIVE remove_nodes_to_class(_, _, _)
remove_nodes_to_class(p, cls_to_remove, removed_nodes) ==
    IF p.failed THEN [p |-> p, removed |-> removed_nodes]
    ELSE IF p.nodes = <<>>
    THEN [p |-> PFail(p, "not on stack"), removed |-> removed_nodes]
    ELSE IF p.heap[Last(p.nodes)].cls = cls_to_remove
    THEN [p |-> set_flag(PopNode(p), cls_to_remove, FALSE),
          removed |-> Append(removed_nodes, Last(p.nodes))]
    ELSE remove_nodes_to_class(set_flag(PopNode(p), p.heap[Last(p.nodes)].cls, FALSE),
                               cls_to_remove, Append(removed_nodes, Last(p.nodes)))

RECURSIVE restore_nodes(_, _)
\* type(old_nd)('') raises TypeError for a class that needs raw_tag and tag
restore_nodes(p, removed_nodes) ==
    IF p.failed \/ removed_nodes = <<>> THEN p
    ELSE IF p.heap[Last(removed_nodes)].cls \in NeedsTag THEN PFail(p, "TypeError")
    ELSE restore_nodes(add_node(SetClosure(p, Last(removed_nodes), Len(p.heap) + 1),
                                p.heap[Last(removed_nodes)].cls,
                                DefaultRawTag(p.heap[Last(removed_nodes)].cls)),
                       Front(removed_nodes))

\* remove_node after remove_nodes_to_class: nd = removed_nodes.pop(), restore
RestoreAbove(r) ==
    IF r.p.failed THEN [p |-> r.p, nd |-> 0]
    ELSE [p |-> restore_nodes(r.p, Front(r.removed)), nd |-> Last(r.removed)]

remove_node(p, cls_to_remove) ==
    RestoreAbove(remove_nodes_to_class(p, cls_to_remove, <<>>))

\* nd = self.remove_node(cls); nd.set_closure(CLOSED_NODE)
CloseStyle(r) == SetClosure(r.p, r.nd, CLOSED_NODE)

handle_token(p, tokens, i, raw_tag, inside_tag, cls) ==
    IF inside_tag
    THEN IF i > 1 /\ ~RX_WHITESPACE(tokens[i - 1])
         THEN CloseStyle(remove_node(p, cls))
         ELSE add_text(p, raw_tag)
    ELSE IF i < Len(tokens) /\ ~RX_WHITESPACE(tokens[i + 1])
         THEN add_node(p, cls, raw_tag)
         ELSE add_text(p, raw_tag)

\* the sentinel tokens of token_lex; every other token is a string
LITERAL_START_TOKEN == "LiteralStartToken"
LITERAL_END_TOKEN == "LiteralEndToken"
HTML_ENTITY_LITERAL_START_TOKEN == "HTMLEntityLiteralStartToken"
HTML_ENTITY_LITERAL_END_TOKEN == "HTMLEntityLiteralEndToken"

SentinelTokens ==
    {LITERAL_START_TOKEN, LITERAL_END_TOKEN,
     HTML_ENTITY_LITERAL_START_TOKEN, HTML_ENTITY_LITERAL_END_TOKEN}

\* html.escape(s) of a string token
html_escape(s) ==
    CASE s = "<" -> "&lt;"
      [] s = ">" -> "&gt;"
      [] s = ">@" -> "&gt;@"
      [] s = "@<" -> "@&lt;"
      [] OTHER -> s

\* self.add_text(html.escape(token)): a sentinel has no method replace
AddEscaped(p, token) ==
    IF token \in SentinelTokens THEN PFail(p, "AttributeError")
    ELSE add_text(p, html_escape(token))

\* Mutant of CloseMarker: the style is removed from the stack whether or
\* not it is open.
CloseMarker_unguarded(p, token, is_open, cls) == CloseStyle(remove_node(p, cls))

\* InlineParser.parse, the tokens [[/span]] and ##: the style is closed
\* when it is open, and the token is text otherwise
CloseMarker(p, token, is_open, cls) ==
    IF is_open THEN CloseStyle(remove_node(p, cls)) ELSE add_text(p, token)

\* Mutant of ColorOpen: a color span opens inside an open color span.
ColorOpen_nested(p, token) == add_node(p, "Color", token)

\* InlineParser.parse, a token that starts with ## and is not ##
ColorOpen(p, token) ==
    IF p.color THEN PFail(p, "FIXME: nested color")
    ELSE add_node(p, "Color", token)

\* InlineParser.parse, the branches above the test isinstance(token, str)
ParseLiteral(p, token) ==
    IF token = LITERAL_END_TOKEN /\ p.escape_literal
    THEN remove_node([p EXCEPT !.escape_literal = FALSE], "Literal").p
    ELSE IF token = LITERAL_START_TOKEN
    THEN add_node([p EXCEPT !.escape_literal = TRUE], "Literal", "@@")
    ELSE IF token = HTML_ENTITY_LITERAL_END_TOKEN /\ p.no_escape_literal
    THEN remove_node([p EXCEPT !.no_escape_literal = FALSE], "HTMLEntityLiteral").p
    ELSE IF token = HTML_ENTITY_LITERAL_END_TOKEN THEN add_text(p, html_escape(">@"))
    ELSE IF p.escape_literal THEN AddEscaped(p, token)
    ELSE IF p.no_escape_literal THEN add_text(p, token)
    ELSE IF token = HTML_ENTITY_LITERAL_START_TOKEN
    THEN add_node([p EXCEPT !.no_escape_literal = TRUE], "HTMLEntityLiteral", "@@")
    ELSE PFail(p, "expected token to be a string")

\* one iteration of the loop of InlineParser.parse
ParseToken(p, tokens, i) ==
    IF p.comment
    THEN IF tokens[i] = "--]" THEN [p EXCEPT !.comment = FALSE] ELSE p
    ELSE IF tokens[i] = "[!--" THEN [p EXCEPT !.comment = TRUE]
    ELSE IF tokens[i] \in SentinelTokens \/ p.escape_literal \/ p.no_escape_literal
    THEN ParseLiteral(p, tokens[i])
    ELSE IF RX_WHITESPACE(tokens[i]) THEN add_text(p, " ")
    ELSE IF tokens[i] = "[[span a]]" THEN add_node(p, "Span", tokens[i])
    ELSE IF tokens[i] = "[[/span]]" THEN CloseMarker(p, tokens[i], p.span_depth > 0, "Span")
    ELSE IF tokens[i] = "[[size a]]" THEN add_node(p, "Size", tokens[i])
    ELSE IF tokens[i] = "[[/size]]" THEN CloseMarker(p, tokens[i], p.size, "Size")
    ELSE IF tokens[i] = "##" THEN CloseMarker(p, tokens[i], p.color, "Color")
    ELSE IF tokens[i] = "##red|" THEN ColorOpen(p, tokens[i])
    ELSE IF tokens[i] = "//" THEN handle_token(p, tokens, i, "//", p.italic, "Italic")
    ELSE IF tokens[i] = "**" THEN handle_token(p, tokens, i, "**", p.bold, "Bold")
    ELSE IF tokens[i] = "{{"
    THEN IF p.fixed_width THEN p
         ELSE handle_token(p, tokens, i, "{{", FALSE, "FixedWidth")
    ELSE IF tokens[i] = "}}"
    THEN IF p.fixed_width THEN handle_token(p, tokens, i, "}}", TRUE, "FixedWidth")
         ELSE p
    ELSE add_text(p, html_escape(tokens[i]))

RECURSIVE remove_all_nodes(_, _)
remove_all_nodes(p, removed_nodes) ==
    IF p.failed \/ p.nodes = <<>> THEN [p |-> p, removed |-> removed_nodes]
    ELSE remove_all_nodes(set_flag(PopNode(p), p.heap[Last(p.nodes)].cls, FALSE),
                          Append(removed_nodes, Last(p.nodes)))

\* self.top_node = type(removed_nodes.pop())(self.wikidot); self.nodes = [top]
NewTopNode(p) ==
    [p EXCEPT !.heap = Append(@, NewNode("Node", "")),
              !.top_node = Len(p.heap) + 1,
              !.nodes = <<Len(p.heap) + 1>>]

restore_all_nodes(r) ==
    IF r.p.failed THEN r.p ELSE restore_nodes(NewTopNode(r.p), Front(r.removed))

\* ---- rendering: a string is the sequence of its texts and tags
TextEv(s) == [k |-> "text", s |-> s, nd |-> 0]

OpenEv(cls, n) == [k |-> "open", s |-> open_tag(cls), nd |-> n]

CloseEv(cls, n) == [k |-> "close", s |-> open_tag(cls), nd |-> n]

RawText(s) == IF s = "" THEN <<>> ELSE <<TextEv(s)>>

RECURSIVE closed(_, _)
\* Node.closed: self.closure.closed(), down to OPEN_NODE or CLOSED_NODE
closed(heap, closure) ==
    IF closure = OPEN_NODE THEN FALSE
    ELSE IF closure = CLOSED_NODE THEN TRUE
    ELSE closed(heap, heap[closure].closure)

RECURSIVE rstrip(_)
rstrip(s) == IF s # <<>> /\ Last(s) = TextEv(" ") THEN rstrip(Front(s)) ELSE s

RECURSIVE Str(_, _)
RECURSIVE JoinChildren(_, _, _)
\* ''.join([str(child) for child in children[from:]])
JoinChildren(heap, children, from) ==
    IF from > Len(children) THEN <<>>
    ELSE (IF children[from].node = 0 THEN <<TextEv(children[from].text)>>
          ELSE Str(heap, children[from].node))
         \o JoinChildren(heap, children, from + 1)

LeadingSpace(nd) == nd.children # <<>> /\ nd.children[1] = Child(0, " ")

NodeFirst(nd) == IF LeadingSpace(nd) THEN <<TextEv(" ")>> ELSE <<>>

NodeRest(heap, nd) == JoinChildren(heap, nd.children, IF LeadingSpace(nd) THEN 2 ELSE 1)

\* Mutant of NodeStr: a closed node renders as soon as its closure is set,
\* with its opening tag and no closing tag when it has no content.
NodeStr_open_tag_without_content(heap, n) ==
    IF closed(heap, heap[n].closure)
    THEN IF NodeRest(heap, heap[n]) # <<>>
         THEN NodeFirst(heap[n]) \o <<OpenEv(heap[n].cls, n)>>
              \o NodeRest(heap, heap[n]) \o <<CloseEv(heap[n].cls, n)>>
         ELSE NodeFirst(heap[n]) \o <<OpenEv(heap[n].cls, n)>>
    ELSE NodeFirst(heap[n]) \o RawText(heap[n].raw_tag) \o NodeRest(heap, heap[n])

\* Node.__str__
NodeStr(heap, n) ==
    IF closed(heap, heap[n].closure)
    THEN IF NodeRest(heap, heap[n]) # <<>>
         THEN NodeFirst(heap[n]) \o <<OpenEv(heap[n].cls, n)>>
              \o NodeRest(heap, heap[n]) \o <<CloseEv(heap[n].cls, n)>>
         ELSE NodeFirst(heap[n])
    ELSE NodeFirst(heap[n]) \o RawText(heap[n].raw_tag) \o NodeRest(heap, heap[n])

\* Span.__str__
SpanStr(heap, n) ==
    <<OpenEv("Span", n)>> \o rstrip(JoinChildren(heap, heap[n].children, 1))
    \o <<CloseEv("Span", n)>>

\* RX_SPACE.sub('&#32;', s)
RECURSIVE EscapeSpaces(_)
EscapeSpaces(s) ==
    IF s = <<>> THEN <<>>
    ELSE <<IF s[1] = TextEv(" ") THEN TextEv("&#32;") ELSE s[1]>> \o EscapeSpaces(Tail(s))

\* Literal.__str__ and HTMLEntityLiteral.__str__
LiteralStr(heap, n) ==
    <<OpenEv(heap[n].cls, n)>> \o EscapeSpaces(JoinChildren(heap, heap[n].children, 1))
    \o <<CloseEv(heap[n].cls, n)>>

Str(heap, n) ==
    IF heap[n].cls = "Span" THEN SpanStr(heap, n)
    ELSE IF heap[n].cls \in {"Literal", "HTMLEntityLiteral"} THEN LiteralStr(heap, n)
    ELSE NodeStr(heap, n)

RECURSIVE write_list_content(_, _, _)
\* List.close, second loop: str(node) of each item, in order
write_list_content(heap, items, from) ==
    IF from > Len(items) THEN <<>>
    ELSE Str(heap, items[from]) \o write_list_content(heap, items, from + 1)

\* ---- the blocks' loops over their lines
InlineIdle ==
    /\ i_block = "none"
    /\ i_lines = <<>>
    /\ i_line = 0
    /\ i_tok = 0
    /\ parser = NewInlineParser
    /\ node_tag_indent = <<>>
    /\ i_out = <<>>
    /\ i_pc = "idle"

\* Paragraph.close and List.close: parser = InlineParser(self.wikidot)
InlineInit ==
    /\ i_block \in {"p", "ul"}
    \* a block of one line, or of two lines of which the first may end
    \* with ' _' when the block is a list
    /\ \/ \E k \in 1..MaxInlineToks : \E s \in [1..k -> InlineTokens] :
              /\ WellFormedTokens(s)
              /\ i_lines = <<[content |-> s, br |-> FALSE]>>
       \/ \E k, l \in 1..MaxItemToks, b \in BOOLEAN :
              \E s \in [1..k -> InlineTokens], u \in [1..l -> InlineTokens] :
                  /\ WellFormedTokens(s)
                  /\ WellFormedTokens(u)
                  /\ i_block = "p" => ~b
                  /\ i_lines = <<[content |-> s, br |-> b],
                                 [content |-> u, br |-> FALSE]>>
    /\ i_line = 0
    /\ i_tok = 0
    /\ parser = NewInlineParser
    /\ node_tag_indent = <<>>
    /\ i_out = <<>>
    /\ i_pc = "parse"

\* ---- token_lex: the strings of str_lex grouped into sentinels
MaxStrToks == 6        \* strings str_lex makes of a line with escape characters

\* the strings str_lex hands to token_lex: the escape characters one by
\* one, any other character or word, the comment markers, a color marker
StrTokens == {"@", "<", ">", "a", "[!--", "--]", "##red|"}

\* str_lex splits a word into its characters only in front of an escape
\* character: two words are adjacent only when one follows them
StrLexed(strs) ==
    \A i \in 1..(Len(strs) - 1) :
        (strs[i] = "a" /\ strs[i + 1] = "a")
        => \E j \in (i + 2)..Len(strs) : strs[j] \in {"@", "<", ">"}

RECURSIVE count_literal_escapes(_, _, _)
\* count_literal_escapes, from str_tokens[i] on
count_literal_escapes(str_tokens, i, prev_s) ==
    IF i > Len(str_tokens) THEN 0
    ELSE IF prev_s = "@" /\ str_tokens[i] = "@"
    THEN 1 + count_literal_escapes(str_tokens, i + 1, "")
    ELSE count_literal_escapes(str_tokens, i + 1, str_tokens[i])

\* tokens.append(prev_s) when prev_s is not empty
FlushPrev(L) == IF L.prev_s # "" THEN [L EXCEPT !.tokens = Append(@, L.prev_s)] ELSE L

\* the body of the loop of token_lex; an index is a position of tokens
\* counted from 1, and 0 stands for -1
TokenLexStep(L, s) ==
    IF L.prev_s = "@" /\ s = "@" /\ L.last_idx > 0
    THEN [L EXCEPT !.remaining_literal_cnt = @ - 1,
                   !.tokens = Append([@ EXCEPT ![L.last_idx] = LITERAL_START_TOKEN],
                                     LITERAL_END_TOKEN),
                   !.last_idx = 0, !.prev_s = ""]
    ELSE IF L.prev_s = "@" /\ s = "@" /\ L.remaining_literal_cnt > 1
    THEN [L EXCEPT !.remaining_literal_cnt = @ - 1, !.tokens = Append(@, "@@"),
                   !.last_idx = Len(L.tokens) + 1, !.prev_s = ""]
    ELSE IF L.prev_s = "@" /\ s = "<"
    THEN [L EXCEPT !.tokens = Append(@, "@<"),
                   !.last_html_entity_idx = IF @ = 0 THEN Len(L.tokens) + 1 ELSE @,
                   !.prev_s = ""]
    ELSE IF L.prev_s = ">" /\ s = "@"
    THEN IF L.last_html_entity_idx > 0
         THEN [L EXCEPT !.tokens = Append([@ EXCEPT ![L.last_html_entity_idx] =
                                               HTML_ENTITY_LITERAL_START_TOKEN],
                                          HTML_ENTITY_LITERAL_END_TOKEN),
                        !.last_html_entity_idx = 0, !.prev_s = ""]
         ELSE [L EXCEPT !.tokens = Append(@, ">"), !.prev_s = "@"]
    ELSE IF s \in {"@", ">"} THEN [FlushPrev(L) EXCEPT !.prev_s = s]
    ELSE [FlushPrev(L) EXCEPT !.tokens = Append(@, s), !.prev_s = ""]

RECURSIVE TokenLexLoop(_, _, _)
TokenLexLoop(L, str_tokens, i) ==
    IF i > Len(str_tokens) THEN L.tokens
    ELSE TokenLexLoop(TokenLexStep(L, str_tokens[i]), str_tokens, i + 1)

\* token_lex after str_lex
token_lex(str_tokens) ==
    TokenLexLoop([tokens |-> <<>>, last_idx |-> 0, last_html_entity_idx |-> 0,
                  prev_s |-> "",
                  remaining_literal_cnt |-> count_literal_escapes(str_tokens, 1, "")],
                 str_tokens, 1)

\* Paragraph.close on a paragraph of one line, or of two short lines
LiteralInit ==
    /\ i_block = "p"
    /\ \/ \E k \in 1..MaxStrToks : \E s \in [1..k -> StrTokens] :
              /\ StrLexed(s)
              /\ i_lines = <<[content |-> token_lex(s), br |-> FALSE]>>
       \/ \E k, l \in 1..MaxItemToks :
              \E s \in [1..k -> StrTokens], u \in [1..l -> StrTokens] :
                  /\ StrLexed(s)
                  /\ StrLexed(u)
                  /\ i_lines = <<[content |-> token_lex(s), br |-> FALSE],
                                 [content |-> token_lex(u), br |-> FALSE]>>
    /\ i_line = 0
    /\ i_tok = 0
    /\ parser = NewInlineParser
    /\ node_tag_indent = <<>>
    /\ i_out = <<>>
    /\ i_pc = "parse"

\* the tokens of blocks with sized spans and fixed-width text among words,
\* white space and bold
StyleTokens == {"abc", " ", "**", "{{", "}}", "[[size a]]", "[[/size]]"}

\* Paragraph.close or List.close on a block of one line
StyleInit ==
    /\ i_block \in {"p", "ul"}
    /\ \E k \in 1..MaxInlineToks : \E s \in [1..k -> StyleTokens] :
           /\ WellFormedTokens(s)
           /\ i_lines = <<[content |-> s, br |-> FALSE]>>
    /\ i_line = 0
    /\ i_tok = 0
    /\ parser = NewInlineParser
    /\ node_tag_indent = <<>>
    /\ i_out = <<>>
    /\ i_pc = "parse"

PcAfter(p) == IF p.failed THEN "failed" ELSE "parse"

\* InlineParser.parse: the next token of the current line
InlineToken ==
    /\ i_pc = "parse"
    /\ i_line < Len(i_lines)
    /\ i_tok < Len(i_lines[i_line + 1].content)
    /\ parser' = ParseToken(parser, i_lines[i_line + 1].content, i_tok + 1)
    /\ i_tok' = i_tok + 1
    /\ i_pc' = PcAfter(parser')
    /\ UNCHANGED <<i_block, i_lines, i_line, node_tag_indent, i_out>>

\* Paragraph.get_content after parse: a line break between lines
ParagraphLineEnd(p, last) == IF last THEN p ELSE add_text(p, LINE_BREAK)

\* List.close after parse: a line break, or the item ends and the open
\* styles are moved to a new top node
ListLineEnd(p, br) ==
    IF br THEN add_text(p, LINE_BREAK)
    ELSE restore_all_nodes(remove_all_nodes(p, <<>>))

InlineEndLine ==
    /\ i_pc = "parse"
    /\ i_line < Len(i_lines)
    /\ i_tok = Len(i_lines[i_line + 1].content)
    /\ parser' = IF i_block = "p"
                 THEN ParagraphLineEnd(parser, i_line + 1 = Len(i_lines))
                 ELSE ListLineEnd(parser, i_lines[i_line + 1].br)
    /\ node_tag_indent' = IF i_block = "ul" /\ ~i_lines[i_line + 1].br
                          THEN Append(node_tag_indent, parser.top_node)
                          ELSE node_tag_indent
    /\ i_line' = i_line + 1
    /\ i_tok' = 0
    /\ i_pc' = PcAfter(parser')
    /\ UNCHANGED <<i_block, i_lines, i_out>>

\* str(top_node) in Paragraph.close; str(node) of every item in List.close
InlineRender ==
    /\ i_pc = "parse"
    /\ i_line = Len(i_lines)
    /\ i_out' = IF i_block = "p" THEN Str(parser.heap, parser.top_node)
                ELSE write_list_content(parser.heap, node_tag_indent, 1)
    /\ i_pc' = "done"
    /\ UNCHANGED <<i_block, i_lines, i_line, i_tok, parser, node_tag_indent>>

\* -------------------------------------------------------------------- link
\* A hyperlink target, the link prefix and the link suffix are strings of
\* characters: a lower-case letter, an upper-case letter, and the three
\* characters Link.__init__ looks for.
MaxHref == 3        \* longest hyperlink target
MaxPrefix == 2      \* longest link prefix and link suffix

LowerCase == {"a"}

HrefChars == LowerCase \cup {"Z", "/", ":", "#"}

PrefixChars == {"a", "/"}

VARIABLES
    href,          \* the target Link.__init__ is handed
    link_prefix,   \* Wikidot.link_prefix
    link_suffix,   \* Wikidot.link_suffix
    full_href,     \* the href of the Link's open tag
    l_out,         \* str(link): the href it shows
    l_pc           \* "idle", "new", "made" or "done"

link_vars == <<href, link_prefix, link_suffix, full_href, l_out, l_pc>>

\* RX_FULL_URL.search(href) from position i: [a-z]+ then ':'
RECURSIVE MatchScheme(_, _)
MatchScheme(s, i) ==
    IF i > Len(s) THEN FALSE
    ELSE IF s[i] \in LowerCase THEN MatchScheme(s, i + 1)
    ELSE s[i] = ":" /\ i > 1

RX_FULL_URL(s) == MatchScheme(s, 1)

\* str.rstrip(c) and str.lstrip(c)
RECURSIVE rstrip_chars(_, _)
rstrip_chars(s, c) ==
    IF s = <<>> \/ s[Len(s)] # c THEN s ELSE rstrip_chars(SubSeq(s, 1, Len(s) - 1), c)

RECURSIVE lstrip_chars(_, _)
lstrip_chars(s, c) == IF s = <<>> \/ s[1] # c THEN s ELSE lstrip_chars(Tail(s), c)

\* Mutant of LinkHref: the prefix and the suffix are put around every target.
LinkHref_always_prefixed(h, prefix, suffix) ==
    rstrip_chars(prefix, "/") \o <<"/">> \o lstrip_chars(h, "/") \o suffix

\* Link.__init__: full_href
LinkHref(h, prefix, suffix) ==
    IF ~RX_FULL_URL(h) /\ ~(h # <<>> /\ h[1] = "#")
    THEN rstrip_chars(prefix, "/") \o <<"/">> \o lstrip_chars(h, "/") \o suffix
    ELSE h

\* a link token read by InlineParser.parse, under the arguments of a run
LinkInit ==
    /\ \E n \in 1..MaxHref : href \in [1..n -> HrefChars]
    /\ \E n \in 0..MaxPrefix : link_prefix \in [1..n -> PrefixChars]
    /\ \E n \in 0..MaxPrefix : link_suffix \in [1..n -> PrefixChars]
    /\ full_href = <<>>
    /\ l_out = <<>>
    /\ l_pc = "new"

LinkIdle ==
    /\ href = <<>>
    /\ link_prefix = <<>>
    /\ link_suffix = <<>>
    /\ full_href = <<>>
    /\ l_out = <<>>
    /\ l_pc = "idle"

\* Link.__init__
LinkNew ==
    /\ l_pc = "new"
    /\ full_href' = LinkHref(href, link_prefix, link_suffix)
    /\ l_pc' = "made"
    /\ UNCHANGED <<href, link_prefix, link_suffix, l_out>>

\* Link.__str__: the open tag with its href
LinkStr ==
    /\ l_pc = "made"
    /\ l_out' = full_href
    /\ l_pc' = "done"
    /\ UNCHANGED <<href, link_prefix, link_suffix, full_href>>

\* ----------------------------------------------------------------- str_lex
\* The text of a line as str_lex scans it, a string of characters: a word
\* character, white space, an escape character, and the characters of the
\* markers **, --, --] and ##.  No text holds '[', '|' or 'http', so the
\* bracket patterns, RX_COLOR_HEAD and RX_URL never match.
MaxText == 5        \* longest text

TextChars == {"a", " ", "<", "*", "-", "]", "#"}

VARIABLES
    lex_text,        \* the argument of str_lex
    lex,             \* its locals: tokens, prefix_and_text, prefix, text, text_i
    lex_pc           \* "idle", "scan" or "done"

lex_vars == <<lex_text, lex, lex_pc>>

StartsWith(s, t) == Len(s) >= Len(t) /\ SubSeq(s, 1, Len(t)) = t

\* RX_LEAD_WHITESPACE: the length of the group 'token'
RECURSIVE LeadWhitespace(_)
LeadWhitespace(s) ==
    IF s # <<>> /\ s[1] = " " THEN 1 + LeadWhitespace(Tail(s)) ELSE 0

\* RX_ESCAPE_CHAR.search(text): the pattern is not anchored
RX_ESCAPE_CHAR(s) == \E i \in DOMAIN s : s[i] \in {"@", "<", ">"}

\* RX_DOUBLED_CHAR.search(text)
RX_DOUBLED_CHAR(s) == StartsWith(s, <<"*", "*">>) \/ StartsWith(s, <<"-", "-">>)

\* if prefix: tokens.append(prefix); prefix = ''
FlushPrefix(L) ==
    IF L.prefix # <<>>
    THEN [L EXCEPT !.tokens = Append(@, L.prefix), !.prefix = <<>>]
    ELSE L

\* tokens.append(text[0:n]); prefix_and_text = text[n:]; text = prefix_and_text;
\* text_i = 0
TakeToken(L, n) ==
    [L EXCEPT !.tokens = Append(@, SubSeq(L.text, 1, n)),
              !.prefix_and_text = SubSeq(L.text, n + 1, Len(L.text)),
              !.text = SubSeq(L.text, n + 1, Len(L.text)),
              !.text_i = 0]

\* text_i += 1; prefix = prefix_and_text[0:text_i]; text = prefix_and_text[text_i:]
GrowPrefix(L) ==
    [L EXCEPT !.text_i = @ + 1,
              !.prefix = SubSeq(L.prefix_and_text, 1, L.text_i + 1),
              !.text = SubSeq(L.prefix_and_text, L.text_i + 2, Len(L.prefix_and_text))]

\* one iteration of the loop of str_lex
StrLexStep(L) ==
    IF StartsWith(L.text, <<"#", "#">>) THEN TakeToken(FlushPrefix(L), 2)
    ELSE IF LeadWhitespace(L.text) > 0
    THEN TakeToken(FlushPrefix(L), LeadWhitespace(L.text))
    ELSE IF StartsWith(L.text, <<"-", "-", "]">>) THEN TakeToken(L, 3)
    ELSE IF RX_ESCAPE_CHAR(L.text) THEN TakeToken(L, 1)
    ELSE IF RX_DOUBLED_CHAR(L.text) THEN TakeToken(FlushPrefix(L), 2)
    ELSE GrowPrefix(L)

\* the locals of str_lex before its loop
NewStrLex(text) ==
    [tokens |-> <<>>, prefix_and_text |-> text, prefix |-> <<>>, text |-> text,
     text_i |-> 0]

LexInit ==
    /\ \E n \in 0..MaxText : lex_text \in [1..n -> TextChars]
    /\ lex = NewStrLex(lex_text)
    /\ lex_pc = "scan"

LexIdle ==
    /\ lex_text = <<>>
    /\ lex = NewStrLex(<<>>)
    /\ lex_pc = "idle"

\* while text: one iteration
LexScan ==
    /\ lex_pc = "scan"
    /\ lex.text # <<>>
    /\ lex' = StrLexStep(lex)
    /\ UNCHANGED <<lex_text, lex_pc>>

\* after the loop: the pending prefix is the last token
LexEnd ==
    /\ lex_pc = "scan"
    /\ lex.text = <<>>
    /\ lex' = FlushPrefix(lex)
    /\ lex_pc' = "done"
    /\ UNCHANGED lex_text

\* --------------------------------------------------------------- token_lex
\* token_lex on the strings str_lex makes of a line with escape characters:
\* the escape characters one by one and words.
MaxGroupToks == 8        \* most strings of a line

EscapeStrings == {"@", "<", ">", "a"}

VARIABLES
    str_tokens,      \* the strings str_lex returned
    tl,              \* the locals of token_lex
    tl_i,            \* strings of str_tokens the loop has taken
    tl_pc            \* "idle", "loop" or "done"

group_vars == <<str_tokens, tl, tl_i, tl_pc>>

\* the locals of token_lex before its loop
NewTokenLex(strs) ==
    [tokens |-> <<>>, last_idx |-> 0, last_html_entity_idx |-> 0, prev_s |-> "",
     remaining_literal_cnt |-> count_literal_escapes(strs, 1, "")]

TokenLexInit ==
    /\ \E n \in 0..MaxGroupToks : str_tokens \in [1..n -> EscapeStrings]
    /\ StrLexed(str_tokens)
    /\ tl = NewTokenLex(str_tokens)
    /\ tl_i = 0
    /\ tl_pc = "loop"

GroupIdle ==
    /\ str_tokens = <<>>
    /\ tl = NewTokenLex(<<>>)
    /\ tl_i = 0
    /\ tl_pc = "idle"

\* for s in str_tokens: one iteration
TokenLexNext ==
    /\ tl_pc = "loop"
    /\ tl_i < Len(str_tokens)
    /\ tl' = TokenLexStep(tl, str_tokens[tl_i + 1])
    /\ tl_i' = tl_i + 1
    /\ UNCHANGED <<str_tokens, tl_pc>>

\* return tokens
TokenLexReturn ==
    /\ tl_pc = "loop"
    /\ tl_i = Len(str_tokens)
    /\ tl_pc' = "done"
    /\ UNCHANGED <<str_tokens, tl, tl_i>>

\* -------------------------------------------------------------- List.close
\* The lines of a list block as List.close reads them: the indent of the
\* line and whether it ends with ' _'.  A line's content is its number.  The
\* block's first line is a list item, and so is every line after a line
\* that does not end with ' _'; all have the marker of the block.  The
\* indent of a line that continues the line before it is not read.
MaxListLines == 5      \* lines of a list block
MaxIndent == 2         \* deepest indent of a list item

VARIABLES
    ls_matches,      \* self.matches: indent and br of each line
    ls_tag,          \* the block's marker kind: "ul" or "ol"
    lst,             \* locals of List.close, opened_lists, inside_line, the output
    ls_i,            \* lines the first loop has taken
    ls_k,            \* items the second loop has taken
    ls_pc            \* "idle", "parse", "render" or "done"

list_vars == <<ls_matches, ls_tag, lst, ls_i, ls_k, ls_pc>>

NoTriple == [some |-> FALSE, tag |-> "", indent |-> 0]

\* the locals of List.close before its first loop; top_node holds what the
\* parser has parsed since the last item: line numbers, and 0 for a line break
NewList ==
    [node_tag_indent |-> <<>>, triple |-> NoTriple, top_node |-> <<>>,
     last_indent |-> -1, opened_lists |-> <<>>,
     inside_line |-> [i \in 0..MaxIndent |-> FALSE], out |-> <<>>, failed |-> FALSE]

ListMatches(ms) ==
    /\ ms # <<>>
    /\ \A i \in DOMAIN ms : (i > 1 /\ ms[i - 1].br) => ms[i].indent = 0

ListInit ==
    /\ \E n \in 1..MaxListLines :
           ls_matches \in [1..n -> [indent : 0..MaxIndent, br : BOOLEAN]]
    /\ ListMatches(ls_matches)
    /\ ls_tag \in {"ul", "ol"}
    /\ lst = NewList
    /\ ls_i = 0
    /\ ls_k = 0
    /\ ls_pc = "parse"

ListIdle ==
    /\ ls_matches = <<>>
    /\ ls_tag = "ul"
    /\ lst = NewList
    /\ ls_i = 0
    /\ ls_k = 0
    /\ ls_pc = "idle"

LWrite(L, s) == [L EXCEPT !.out = Append(@, s)]

\* inside_line.get(indent, False)
InsideLine(L, indent) == indent \in DOMAIN L.inside_line /\ L.inside_line[indent]

close_line(L, indent) ==
    [LWrite(L, [t |-> "</li>", node |-> <<>>]) EXCEPT !.inside_line[indent] = FALSE]

open_line(L, indent) ==
    [LWrite(IF InsideLine(L, indent) THEN close_line(L, indent) ELSE L,
            [t |-> "<li>", node |-> <<>>])
     EXCEPT !.inside_line[indent] = TRUE]

open_list(L, tag, indent) ==
    LET started == IF InsideLine(L, indent - 1)
                   THEN LWrite(L, [t |-> "nl", node |-> <<>>])
                   ELSE IF indent > 0
                   THEN LWrite(open_line(L, indent - 1), [t |-> "nl", node |-> <<>>])
                   ELSE L
    IN [LWrite(started, [t |-> "<" \o tag \o ">", node |-> <<>>])
        EXCEPT !.opened_lists = Append(@, tag)]

\* Mutant of close_list: the item open at the indent is not closed.
close_list_item_left_open(L, indent) ==
    IF L.failed THEN L
    ELSE IF L.opened_lists = <<>> THEN [L EXCEPT !.failed = TRUE]
    ELSE [LWrite(L, [t |-> "</" \o L.opened_lists[Len(L.opened_lists)] \o ">",
                     node |-> <<>>])
          EXCEPT !.opened_lists = SubSeq(@, 1, Len(@) - 1)]

\* opened_lists.pop() of an empty list raises
close_list(L, indent) ==
    LET closed_line == IF InsideLine(L, indent) THEN close_line(L, indent) ELSE L
    IN IF L.failed THEN L
       ELSE IF L.opened_lists = <<>> THEN [closed_line EXCEPT !.failed = TRUE]
       ELSE [LWrite(closed_line,
                    [t |-> "</" \o L.opened_lists[Len(L.opened_lists)] \o ">",
                     node |-> <<>>])
             EXCEPT !.opened_lists = SubSeq(@, 1, Len(@) - 1)]

\* for i in range(from, to): self.close_list(output_stream, i + 1)
RECURSIVE CloseLists(_, _, _)
CloseLists(L, from, to) ==
    IF from >= to THEN L ELSE CloseLists(close_list(L, from + 1), from + 1, to)

\* for i in range(from, to): self.open_list(output_stream, tag, i + 1)
RECURSIVE OpenLists(_, _, _, _)
OpenLists(L, tag, from, to) ==
    IF from >= to THEN L ELSE OpenLists(open_list(L, tag, from + 1), tag, from + 1, to)

\* the first loop of List.close: the line at index i of self.matches
ParseMatch(L, tag, m, i) ==
    LET triple == IF L.triple.some THEN L.triple
                  ELSE [some |-> TRUE, tag |-> tag, indent |-> m.indent]
    IN IF m.br
       THEN [L EXCEPT !.triple = triple, !.top_node = @ \o <<i, 0>>]
       ELSE [L EXCEPT !.triple = NoTriple,
                      !.top_node = <<>>,
                      !.node_tag_indent =
                          Append(@, [node |-> L.top_node \o <<i>>,
                                     tag |-> triple.tag, indent |-> triple.indent])]

\* the second loop of List.close: one item
RenderItem(L, item) ==
    IF L.failed THEN L
    ELSE [LWrite(open_line(OpenLists(CloseLists(L, item.indent, L.last_indent),
                                     item.tag, L.last_indent, item.indent),
                           item.indent),
                 [t |-> "content", node |-> item.node])
          EXCEPT !.last_indent = item.indent]

ListMatch ==
    /\ ls_pc = "parse"
    /\ ls_i < Len(ls_matches)
    /\ lst' = ParseMatch(lst, ls_tag, ls_matches[ls_i + 1], ls_i + 1)
    /\ ls_i' = ls_i + 1
    /\ UNCHANGED <<ls_matches, ls_tag, ls_k, ls_pc>>

\* last_indent = -1; self.opened_lists = []; self.inside_line = {}
ListStartRender ==
    /\ ls_pc = "parse"
    /\ ls_i = Len(ls_matches)
    /\ lst' = [lst EXCEPT !.last_indent = -1, !.opened_lists = <<>>,
                          !.inside_line = [i \in 0..MaxIndent |-> FALSE]]
    /\ ls_pc' = "render"
    /\ UNCHANGED <<ls_matches, ls_tag, ls_i, ls_k>>

ListItem ==
    /\ ls_pc = "render"
    /\ ls_k < Len(lst.node_tag_indent)
    /\ lst' = RenderItem(lst, lst.node_tag_indent[ls_k + 1])
    /\ ls_k' = ls_k + 1
    /\ UNCHANGED <<ls_matches, ls_tag, ls_i, ls_pc>>

\* for i in range(-1, last_indent): self.close_list(output_stream, i + 1)
ListEnd ==
    /\ ls_pc = "render"
    /\ ls_k = Len(lst.node_tag_indent)
    /\ lst' = CloseLists(lst, -1, lst.last_indent)
    /\ ls_pc' = "done"
    /\ UNCHANGED <<ls_matches, ls_tag, ls_i, ls_k>>

\* -------------------------------------------------------- remove_highlight
\* The text on sys.stdin as remove_highlight.py reads it, a string of
\* characters: the characters of the markers, the end of a line, and two
\* colour names with the bar that ends them, "r" for 'red|' and "g" for
\* 'gray|'.  An input is a text of these characters, or such a text after
\* a marker that opens a highlight or an escape span.
MaxHlText == 4       \* longest text after the opening marker

HlChars == {"@", "<", ">", "#", "r", "g", "\n"}

HlHeads == {<<>>, <<"#", "#", "r">>, <<"#", "#", "g">>, <<"@", "@">>, <<"@", "<">>}

VARIABLES
    hl_text,         \* everything sys.stdin holds
    hl_in,           \* the part of it not read yet
    hl_s,            \* s: the rest of the line being scanned
    highlight,       \* "None", "gray" or "not gray"
    escape,          \* <<>> for None, or the marker that opened the span
    hl_out,          \* what has been written to sys.stdout
    hl_pc            \* "idle", "run", "done" or "failed"

hl_vars == <<hl_text, hl_in, hl_s, highlight, escape, hl_out, hl_pc>>

AtAt == <<"@", "@">>
AtLt == <<"@", "<">>
GtAt == <<">", "@">>
GtAtAt == <<">", "@", "@">>
LtAtAt == <<"<", "@", "@">>
HashHash == <<"#", "#">>
GrayHead == <<"#", "#", "g">>

\* ##[a-zA-F0-9]+\| at the start of t
ColorHead(t) == StartsWith(t, HashHash) /\ Len(t) >= 3 /\ t[3] \in {"r", "g"}

\* the alternatives of RX_NEXT tried in order at the start of t;
\* RX_NEXT_INSIDE_HIGHLIGHT is RX_NEXT without the colour head
MarkerAt(t, inside) ==
    IF StartsWith(t, GtAtAt) THEN GtAtAt
    ELSE IF StartsWith(t, LtAtAt) THEN LtAtAt
    ELSE IF StartsWith(t, AtAt) THEN AtAt
    ELSE IF StartsWith(t, AtLt) THEN AtLt
    ELSE IF StartsWith(t, GtAt) THEN GtAt
    ELSE IF ~inside /\ ColorHead(t) THEN SubSeq(t, 1, 3)
    ELSE IF StartsWith(t, HashHash) THEN HashHash
    ELSE <<>>

From(t, i) == SubSeq(t, i, Len(t))

\* md.start(0) + 1 of the search in t, or 0 when nothing matches
RX_NEXT(t, inside) ==
    IF \E i \in DOMAIN t : MarkerAt(From(t, i), inside) # <<>>
    THEN CHOOSE i \in DOMAIN t :
             /\ MarkerAt(From(t, i), inside) # <<>>
             /\ \A j \in 1..(i - 1) : MarkerAt(From(t, j), inside) = <<>>
    ELSE 0

\* the branches for '>@@' and '<@@': what they write, match and postmatch
Rematch(group, postmatch, esc) ==
    IF group = GtAtAt
    THEN IF esc = AtLt
         THEN [write |-> <<>>, match |-> GtAt, postmatch |-> <<"@">> \o postmatch]
         ELSE [write |-> <<">">>, match |-> AtAt, postmatch |-> postmatch]
    ELSE IF group = LtAtAt
    THEN IF esc = AtAt
         THEN [write |-> <<"<">>, match |-> AtAt, postmatch |-> postmatch]
         ELSE [write |-> <<>>, match |-> <<"<", "@">>,
               postmatch |-> <<"@">> \o postmatch]
    ELSE [write |-> <<>>, match |-> group, postmatch |-> postmatch]

HlResult(write, hl, esc, failed) ==
    [write |-> write, highlight |-> hl, escape |-> esc, failed |-> failed]

\* the if/elif chain on escape and match: what it writes, the new
\* highlight and escape, and whether die() was called
OnMatch(group, match, hl, esc) ==
    IF esc = AtAt THEN HlResult(match, hl, IF match = AtAt THEN <<>> ELSE esc, FALSE)
    ELSE IF esc = AtLt
    THEN HlResult(match, hl, IF match = GtAt THEN <<>> ELSE esc, FALSE)
    ELSE IF match = AtAt THEN HlResult(match, hl, AtAt, FALSE)
    ELSE IF match = AtLt THEN HlResult(match, hl, AtLt, FALSE)
    ELSE IF group = HashHash
    THEN IF hl # "None"
         THEN HlResult(IF hl = "gray" THEN match ELSE <<>>, "None", esc, FALSE)
         ELSE HlResult(match, hl, esc, FALSE)
    ELSE IF StartsWith(match, HashHash)
    THEN IF hl # "None" THEN HlResult(<<>>, hl, esc, TRUE)
         ELSE IF match = GrayHead THEN HlResult(match, "gray", esc, FALSE)
         ELSE HlResult(<<>>, "not gray", esc, FALSE)
    ELSE HlResult(<<>>, hl, esc, TRUE)

\* the first line of the unread input, with its line end
FirstLine(t) ==
    IF \E i \in DOMAIN t : t[i] = "\n"
    THEN SubSeq(t, 1, CHOOSE i \in DOMAIN t :
                          t[i] = "\n" /\ \A j \in 1..(i - 1) : t[j] # "\n")
    ELSE t

HlInit ==
    /\ \E n \in 0..MaxHlText : \E head \in HlHeads, t \in [1..n -> HlChars] :
           hl_text = head \o t
    /\ hl_in = hl_text
    /\ hl_s = <<>>
    /\ highlight = "None"
    /\ escape = <<>>
    /\ hl_out = <<>>
    /\ hl_pc = "run"

HlIdle ==
    /\ hl_text = <<>>
    /\ hl_in = <<>>
    /\ hl_s = <<>>
    /\ highlight = "None"
    /\ escape = <<>>
    /\ hl_out = <<>>
    /\ hl_pc = "idle"

\* for lineno, line in enumerate(sys.stdin): s = line
HlReadLine ==
    /\ hl_pc = "run"
    /\ hl_s = <<>>
    /\ hl_in # <<>>
    /\ hl_s' = FirstLine(hl_in)
    /\ hl_in' = From(hl_in, Len(FirstLine(hl_in)) + 1)
    /\ UNCHANGED <<hl_text, highlight, escape, hl_out, hl_pc>>

\* while s: the branch of a match
HlMatch ==
    /\ hl_pc = "run"
    /\ hl_s # <<>>
    /\ RX_NEXT(hl_s, highlight # "None") > 0
    /\ LET start == RX_NEXT(hl_s, highlight # "None")
           group == MarkerAt(From(hl_s, start), highlight # "None")
           prematch == SubSeq(hl_s, 1, start - 1)
           re == Rematch(group, From(hl_s, start + Len(group)), escape)
           on == OnMatch(group, re.match, highlight, escape)
       IN /\ hl_out' = hl_out \o prematch \o re.write \o on.write
          /\ highlight' = on.highlight
          /\ escape' = on.escape
          /\ hl_pc' = IF on.failed THEN "failed" ELSE "run"
          /\ hl_s' = IF on.failed THEN hl_s ELSE re.postmatch
    /\ UNCHANGED <<hl_text, hl_in>>

\* while s: no marker is left on the line
HlNoMatch ==
    /\ hl_pc = "run"
    /\ hl_s # <<>>
    /\ RX_NEXT(hl_s, highlight # "None") = 0
    /\ hl_out' = hl_out \o hl_s
    /\ hl_s' = <<>>
    /\ UNCHANGED <<hl_text, hl_in, highlight, escape, hl_pc>>

\* sys.stdin is exhausted
HlEnd ==
    /\ hl_pc = "run"
    /\ hl_s = <<>>
    /\ hl_in = <<>>
    /\ hl_pc' = "done"
    /\ UNCHANGED <<hl_text, hl_in, hl_s, highlight, escape, hl_out>>

\* ------------------------------------------------- steps and specifications
TableIdle ==
    /\ t_matches = <<>>
    /\ t_i = 0
    /\ t_pc = "idle"
    /\ table = NewTable

\* BlockParser.__init__ and Wikidot.__init__, the input read
DriverInit ==
    /\ input_lines \in UNION {[1..n -> Lines] : n \in 0..MaxLen}
    /\ pass = 1
    /\ lineno = 0
    /\ pc = "lines"
    /\ bp = NewBlockParser
    /\ wikidot = NewWikidot
    /\ out = <<>>
    /\ nul = <<>>
    /\ line = "none"
    /\ err = <<>>

SetWorld(w) ==
    /\ bp' = w.bp
    /\ wikidot' = w.wikidot
    /\ out' = w.out
    /\ nul' = w.nul
    /\ err' = w.err

\* one iteration of the loop of _process_lines
Line ==
    /\ pc = "lines"
    /\ lineno < Len(input_lines)
    /\ line' = LoopLine(World(bp, wikidot, out, nul, err), Stream(pass),
                        input_lines[lineno + 1])
    /\ LET w == ProcessLine(World(bp, wikidot, out, nul, err), Stream(pass),
                            input_lines[lineno + 1], lineno + 1)
       IN /\ SetWorld(ExceptHandler(w, lineno + 1, line'))
          /\ pc' = IF w.failed THEN "failed" ELSE "lines"
    /\ lineno' = lineno + 1
    /\ UNCHANGED <<input_lines, pass>>

\* the end of _process_lines, after the last line
EndPass ==
    /\ pc = "lines"
    /\ lineno = Len(input_lines)
    /\ LET w == EndOfInput(World(bp, wikidot, out, nul, err), Stream(pass))
       IN /\ SetWorld(ExceptHandler(w, lineno, line))
          /\ pc' = IF w.failed THEN "failed" ELSE IF pass = 1 THEN "eof" ELSE "done"
    /\ UNCHANGED <<input_lines, pass, lineno, line>>

\* Mutant of StartPass2: the two counters keep the values pass 1 reached.
StartPass2_counters_kept ==
    /\ pc = "eof"
    /\ pass = 1
    /\ wikidot' = [wikidot EXCEPT !.toc = NewTOC]
    /\ bp' = [bp EXCEPT !.toc = [set |-> TRUE, headers |-> wikidot.toc]]
    /\ pass' = 2
    /\ lineno' = 0
    /\ pc' = "lines"
    /\ UNCHANGED <<input_lines, out, nul, line, err>>

\* process_lines between its two calls of _process_lines
StartPass2 ==
    /\ pc = "eof"
    /\ pass = 1
    /\ wikidot' = [wikidot EXCEPT !.next_toc_number = 0, !.next_eqn_number = 1,
                                  !.toc = NewTOC]
    /\ bp' = [bp EXCEPT !.toc = [set |-> TRUE, headers |-> wikidot.toc]]
    /\ pass' = 2
    /\ lineno' = 0
    /\ pc' = "lines"
    /\ UNCHANGED <<input_lines, out, nul, line, err>>

vars == <<driver_vars, table_vars, inline_vars, link_vars, lex_vars, group_vars, list_vars, hl_vars>>

Init == DriverInit /\ TableIdle /\ InlineIdle /\ LinkIdle /\ LexIdle /\ GroupIdle /\ ListIdle /\ HlIdle

Next ==
    \/ Line /\ UNCHANGED <<table_vars, inline_vars, link_vars, lex_vars, group_vars, list_vars, hl_vars>>
    \/ EndPass /\ UNCHANGED <<table_vars, inline_vars, link_vars, lex_vars, group_vars, list_vars, hl_vars>>
    \/ StartPass2 /\ UNCHANGED <<table_vars, inline_vars, link_vars, lex_vars, group_vars, list_vars, hl_vars>>

Spec == Init /\ [][Next]_vars

DriverIdle ==
    /\ input_lines = <<>>
    /\ pass = 0
    /\ lineno = 0
    /\ pc = "idle"
    /\ bp = NewBlockParser
    /\ wikidot = NewWikidot
    /\ out = <<>>
    /\ nul = <<>>
    /\ line = "none"
    /\ err = <<>>

InitTable == TableInit /\ DriverIdle /\ InlineIdle /\ LinkIdle /\ LexIdle /\ GroupIdle /\ ListIdle /\ HlIdle

NextTable ==
    \/ TableStart /\ UNCHANGED <<driver_vars, inline_vars, link_vars, lex_vars, group_vars, list_vars, hl_vars>>
    \/ TableLine /\ UNCHANGED <<driver_vars, inline_vars, link_vars, lex_vars, group_vars, list_vars, hl_vars>>
    \/ TableFinish /\ UNCHANGED <<driver_vars, inline_vars, link_vars, lex_vars, group_vars, list_vars, hl_vars>>

SpecTable == InitTable /\ [][NextTable]_vars

InitInline == InlineInit /\ DriverIdle /\ TableIdle /\ LinkIdle /\ LexIdle /\ GroupIdle /\ ListIdle /\ HlIdle

NextInline ==
    \/ InlineToken /\ UNCHANGED <<driver_vars, table_vars, link_vars, lex_vars, group_vars, list_vars, hl_vars>>
    \/ InlineEndLine /\ UNCHANGED <<driver_vars, table_vars, link_vars, lex_vars, group_vars, list_vars, hl_vars>>
    \/ InlineRender /\ UNCHANGED <<driver_vars, table_vars, link_vars, lex_vars, group_vars, list_vars, hl_vars>>

SpecInline == InitInline /\ [][NextInline]_vars

InitLiteral == LiteralInit /\ DriverIdle /\ TableIdle /\ LinkIdle /\ LexIdle /\ GroupIdle /\ ListIdle /\ HlIdle

SpecLiteral == InitLiteral /\ [][NextInline]_vars

InitStyles == StyleInit /\ DriverIdle /\ TableIdle /\ LinkIdle /\ LexIdle /\ GroupIdle /\ ListIdle /\ HlIdle

SpecStyles == InitStyles /\ [][NextInline]_vars

InitLink == LinkInit /\ DriverIdle /\ TableIdle /\ InlineIdle /\ LexIdle /\ GroupIdle /\ ListIdle /\ HlIdle

NextLink ==
    \/ LinkNew /\ UNCHANGED <<driver_vars, table_vars, inline_vars, lex_vars, group_vars, list_vars, hl_vars>>
    \/ LinkStr /\ UNCHANGED <<driver_vars, table_vars, inline_vars, lex_vars, group_vars, list_vars, hl_vars>>

SpecLink == InitLink /\ [][NextLink]_vars

InitLex == LexInit /\ DriverIdle /\ TableIdle /\ InlineIdle /\ LinkIdle /\ GroupIdle /\ ListIdle /\ HlIdle

NextLex ==
    \/ LexScan /\ UNCHANGED <<driver_vars, table_vars, inline_vars, link_vars, group_vars, list_vars, hl_vars>>
    \/ LexEnd /\ UNCHANGED <<driver_vars, table_vars, inline_vars, link_vars, group_vars, list_vars, hl_vars>>

SpecLex == InitLex /\ [][NextLex]_vars

\* token_lex on the strings of one line
InitTokenLex == TokenLexInit /\ DriverIdle /\ TableIdle /\ InlineIdle /\ LinkIdle /\ LexIdle /\ ListIdle /\ HlIdle

NextTokenLex ==
    \/ TokenLexNext /\ UNCHANGED <<driver_vars, table_vars, inline_vars, link_vars, lex_vars, list_vars, hl_vars>>
    \/ TokenLexReturn /\ UNCHANGED <<driver_vars, table_vars, inline_vars, link_vars, lex_vars, list_vars, hl_vars>>

SpecTokenLex == InitTokenLex /\ [][NextTokenLex]_vars

\* List.close on the lines of one list block
InitList == ListInit /\ DriverIdle /\ TableIdle /\ InlineIdle /\ LinkIdle /\ LexIdle /\ GroupIdle /\ HlIdle

NextList ==
    \/ ListMatch /\ UNCHANGED <<driver_vars, table_vars, inline_vars, link_vars, lex_vars, group_vars, hl_vars>>
    \/ ListStartRender /\ UNCHANGED <<driver_vars, table_vars, inline_vars, link_vars, lex_vars, group_vars, hl_vars>>
    \/ ListItem /\ UNCHANGED <<driver_vars, table_vars, inline_vars, link_vars, lex_vars, group_vars, hl_vars>>
    \/ ListEnd /\ UNCHANGED <<driver_vars, table_vars, inline_vars, link_vars, lex_vars, group_vars, hl_vars>>

SpecList == InitList /\ [][NextList]_vars

InitHighlight ==
    HlInit /\ DriverIdle /\ TableIdle /\ InlineIdle /\ LinkIdle /\ LexIdle /\ GroupIdle /\ ListIdle

NextHighlight ==
    \/ HlReadLine /\ UNCHANGED <<driver_vars, table_vars, inline_vars, link_vars, lex_vars, group_vars, list_vars>>
    \/ HlMatch /\ UNCHANGED <<driver_vars, table_vars, inline_vars, link_vars, lex_vars, group_vars, list_vars>>
    \/ HlNoMatch /\ UNCHANGED <<driver_vars, table_vars, inline_vars, link_vars, lex_vars, group_vars, list_vars>>
    \/ HlEnd /\ UNCHANGED <<driver_vars, table_vars, inline_vars, link_vars, lex_vars, group_vars, list_vars>>

SpecHighlight == InitHighlight /\ [][NextHighlight]_vars


\* ================================================================= claims
Count(seq, ev) == Cardinality({i \in DOMAIN seq : seq[i].ev = ev})

IsHeaderEv(e) == e.ev = "block" /\ e.typ = "_hn"

\* the Header blocks a stream shows, in order: <<first line, anchor number>>
HeaderIds(seq) ==
    LET hs == SelectSeq(seq, IsHeaderEv)
    IN [k \in DOMAIN hs |-> <<hs[k].at, hs[k].num>>]

\* the entries of a written table of contents: <<header line, anchor number>>
TocIds(e) == [k \in DOMAIN e.ents |-> <<e.ents[k].text, e.ents[k].toc_number>>]

\* C1: every table of contents written to the caller's stream lists exactly
\* the Header blocks pass 1 created (all of them closed, so shown by the
\* discarded stream), each once and in creation order, whether the header's
\* line is above or below the placeholder line.
C1_TocListsEveryPass1Header ==
    \A i \in DOMAIN out : out[i].ev = "toc" => TocIds(out[i]) = HeaderIds(nul)

\* C1 witness: a table of contents was written that lists a header whose line
\* comes after the placeholder line.
C1_Witness ==
    \E i \in DOMAIN out :
        /\ out[i].ev = "toc"
        /\ \E k \in DOMAIN out[i].ents : out[i].ents[k].text > out[i].at

\* C2: when the conversion is done, pass 2 has created Header blocks for the
\* same lines as pass 1, with the same anchor numbers.
C2_SameHeadersInBothPasses == pc = "done" => HeaderIds(out) = HeaderIds(nul)

\* the stream the running pass writes to
PassStream == IF pass = 1 THEN nul ELSE out

\* C3: while no fatal error has occurred the blockquote level equals the
\* <blockquote> tags written minus the </blockquote> tags written by the
\* running pass and is not negative; when a pass has ended they are equal.
C3_BlockquoteBalanced ==
    pc # "failed" =>
        /\ bp.bq_level >= 0
        /\ bp.bq_level = Count(PassStream, "blockquote") - Count(PassStream, "/blockquote")
        /\ pc \in {"eof", "done"} =>
               Count(PassStream, "blockquote") = Count(PassStream, "/blockquote")

\* C3 witness: a finished conversion that wrote a blockquote two levels deep.
C3_Witness ==
    /\ pc = "done"
    /\ Count(out, "blockquote") >= 2
    /\ \E i \in DOMAIN input_lines : input_lines[i].bq = 2

\* C4: at the end of the rendering pass the div stack is empty and every
\* <div> written has its </div>.
C4_DivsClosedAtEndOfInput ==
    pc = "done" => bp.divs = <<>> /\ Count(out, "div") = Count(out, "/div")

\* C5: nothing is written to the caller's stream while pass 1 runs.
C5_NoOutputDuringPass1 == pass = 1 => out = <<>>

\* C5 witness: pass 1 handed writes to the null stream, and pass 2 has written
\* to the caller's stream.
C5_Witness == pass = 2 /\ nul # <<>> /\ out # <<>>

BlockId(b) == IF b.block_type = "none" THEN 0 ELSE b.linenos[1]

IsFenceClose(l, block_type) ==
    /\ l.bq = 0
    /\ ~l.br
    /\ l.kind = IF block_type = "code" THEN "codeend" ELSE "mathend"

\* C8: an open code or math block is closed only by its fence-close marker
\* or by the end of input, and its input_nesting_level is 0 when it closes.
C8_FencedBlockClosesOnlyAtFenceOrEnd ==
    [][(/\ pc = "lines"
        /\ bp.current_block.block_type \in {"code", "math"}
        /\ BlockId(bp'.current_block) # BlockId(bp.current_block))
       => /\ bp.current_block.input_nesting_level = 0
          /\ \/ lineno = Len(input_lines)
             \/ IsFenceClose(input_lines[lineno + 1], bp.current_block.block_type)]_vars

\* ---------------------------------------------------------- table claims
RECURSIVE EmptiesBefore(_, _, _)
\* the empty cells immediately before cells[i], not below position lo
EmptiesBefore(cells, i, lo) ==
    IF i - 1 >= lo /\ cells[i - 1] = "" THEN 1 + EmptiesBefore(cells, i - 1, lo) ELSE 0

\* The colspan the claim gives each cell that starts on a line, in order:
\* from position lo on, every non-empty cell, and the last cell when the
\* line leaves it open.
ColspansFrom(cells, lo, open_last) ==
    LET started == {i \in lo..Len(cells) : cells[i] # "" \/ (open_last /\ i = Len(cells))}
        idx == SelectSeq([i \in 1..Len(cells) |-> i], LAMBDA i : i \in started)
    IN [k \in DOMAIN idx |-> 1 + EmptiesBefore(cells, idx[k], lo)]

LineColspans(c) ==
    IF IsFullRow(c) THEN ColspansFrom(row_to_cells(FullRowGroup(c)), 1, FALSE)
    ELSE IF IsStartRow(c) THEN ColspansFrom(row_to_cells(StartRowGroup(c)), 1, TRUE)
    ELSE IF IsEndRow(c) THEN ColspansFrom(row_to_cells(EndRowGroup(c)), 2, FALSE)
    ELSE ColspansFrom(row_to_cells(c), 2, Len(row_to_cells(c)) > 1)

RECURSIVE BlockColspans(_, _)
BlockColspans(matches, n) ==
    IF n = 0 THEN <<>> ELSE BlockColspans(matches, n - 1) \o LineColspans(matches[n])

IsCellEv(e) == e.ev = "cell"

\* C9: the k-th cell element written carries the colspan of the k-th cell
\* started: 1 plus the empty cells immediately before it in its row.
C9_ColspanCountsEmptyCells ==
    LET cells == SelectSeq(table.out, IsCellEv)
        want == BlockColspans(t_matches, t_i)
    IN \A k \in DOMAIN cells : k <= Len(want) /\ cells[k].num = want[k]

\* a line that cannot follow the lines before it
RowDesync(c, inside_cell) ==
    \/ IsStartRow(c) /\ inside_cell
    \/ ~IsStartRow(c) /\ ~inside_cell

\* C10: a line that starts a row while a cell is open, and a line that
\* closes or continues a row while none is open, aborts the rendering.
C10_RowDesyncIsFatal ==
    [][(/\ t_pc = "rows"
        /\ t_i < Len(t_matches)
        /\ RowDesync(t_matches[t_i + 1], table.inside_cell))
       => t_pc' = "failed"]_vars

\* --------------------------------------------------------- inline claims
RECURSIVE Nests(_, _, _)
\* every closing tag from position i on closes the innermost open tag, which
\* is of the same element and the same node, and no tag is left open
Nests(evs, i, open) ==
    IF i > Len(evs) THEN open = <<>>
    ELSE IF evs[i].k = "open" THEN Nests(evs, i + 1, Append(open, evs[i]))
    ELSE IF evs[i].k = "close"
    THEN /\ open # <<>>
         /\ Last(open).s = evs[i].s
         /\ Last(open).nd = evs[i].nd
         /\ Nests(evs, i + 1, Front(open))
    ELSE Nests(evs, i + 1, open)

\* C6: whatever tokens have been parsed, every node of the tree renders
\* with a closing tag for each opening tag, properly nested, each node's
\* closing tag matching its own opening tag; so does the rendered content.
C6_StyleTagsNest ==
    i_pc # "failed" =>
        /\ \A n \in DOMAIN parser.heap : Nests(Str(parser.heap, n), 1, <<>>)
        /\ Nests(i_out, 1, <<>>)

\* C6 witness: the rendered content has the tags of a style that was
\* re-opened when an enclosing style closed (overlapping markers), and the
\* tree also holds a style node that was never closed.
C6_Witness ==
    /\ i_pc = "done"
    /\ \E i \in DOMAIN i_out :
           /\ i_out[i].k = "open"
           /\ parser.heap[i_out[i].nd].closure > 0
    /\ \E n \in DOMAIN parser.heap :
           /\ parser.heap[n].cls # "Node"
           /\ ~closed(parser.heap, parser.heap[n].closure)

\* every token of the block has been handed to the parser
EndOfBlock ==
    /\ i_pc # "idle"
    /\ \/ i_line = Len(i_lines)
       \/ i_line = Len(i_lines) - 1 /\ i_tok = Len(i_lines[Len(i_lines)].content)

\* C7: when the block's tokens are used up, a style node that is still not
\* closed has not made the conversion fail (a color marker inside an open
\* color span is a fatal error of its own) and has no tag in the rendered
\* content.
C7_UnclosedStyleIsLiteralText ==
    \A n \in DOMAIN parser.heap :
        (/\ EndOfBlock
         /\ parser.heap[n].cls # "Node"
         /\ ~closed(parser.heap, parser.heap[n].closure))
        => /\ i_pc = "failed" => parser.error = "FIXME: nested color"
           /\ \A i \in DOMAIN i_out : i_out[i].nd # n

\* the parser is about to be handed a token, and the token it is handed
AtToken ==
    /\ i_pc = "parse"
    /\ i_line < Len(i_lines)
    /\ i_tok < Len(i_lines[i_line + 1].content)

NextToken == i_lines[i_line + 1].content[i_tok + 1]

\* the token is neither swallowed by a comment nor text of a literal span
ReadAsMarkup ==
    ~parser.comment /\ ~parser.escape_literal /\ ~parser.no_escape_literal

\* C11: when a color-open token is read as markup (outside a comment and
\* outside a literal span) while a color span is open in the same parser,
\* the conversion fails with the nested-color error, and no node is created
\* or pushed on the stack.
C11_NestedColorIsFatal ==
    [][(AtToken /\ NextToken = "##red|" /\ parser.color /\ ReadAsMarkup)
       => /\ i_pc' = "failed"
          /\ parser'.error = "FIXME: nested color"
          /\ parser'.heap = parser.heap
          /\ parser'.nodes = parser.nodes]_vars

\* C11 witness: the conversion failed on a color-open token that came after
\* a closed literal span inside an open color span.
C11_Witness ==
    /\ i_pc = "failed"
    /\ parser.error = "FIXME: nested color"
    /\ parser.color
    /\ \E n \in DOMAIN parser.heap : parser.heap[n].cls = "Literal"

\* the input line whose markup raised: the row at which Table.close stopped
OffendingLine == bp.current_block.linenos[FailedRow(bp.current_block.matches)]

\* C12: when the conversion has failed, every line number written to
\* sys.stderr is the 1-based number of the input line whose markup raised,
\* and the text the driver reports is that line as it was read, with its
\* blockquote markers.
C12_ErrorNamesOffendingLine ==
    pc = "failed" =>
        \A i \in DOMAIN err :
            /\ err[i].lineno = OffendingLine
            /\ err[i].src = "_process_lines"
                   => err[i].line = RawLine(input_lines[OffendingLine])

\* a literal span or an HTML-entity-literal span is open
InLiteralSpan == parser.escape_literal \/ parser.no_escape_literal

\* the token is the end sentinel of the open span
EndsLiteralSpan ==
    \/ NextToken = LITERAL_END_TOKEN /\ parser.escape_literal
    \/ NextToken = HTML_ENTITY_LITERAL_END_TOKEN /\ parser.no_escape_literal

\* C13: while a literal span or an HTML-entity-literal span is open, a token
\* other than the span's end sentinel is added to the span as text: the
\* span is the innermost open node and gets one more child, no node is
\* created, opened or closed, no comment starts, the parser does not fail.
C13_LiteralContentIsText ==
    [][(AtToken /\ InLiteralSpan /\ ~EndsLiteralSpan)
       => /\ i_pc' = "parse"
          /\ ~parser'.comment
          /\ parser'.nodes = parser.nodes
          /\ Len(parser'.heap) = Len(parser.heap)
          /\ parser.heap[Last(parser.nodes)].cls \in {"Literal", "HTMLEntityLiteral"}
          /\ Len(parser'.heap[Last(parser.nodes)].children)
                 = Len(parser.heap[Last(parser.nodes)].children) + 1]_vars

\* the driver as the next iteration of the loop of _process_lines finds it
Now == World(bp, wikidot, out, nul, err)

AtLine == pc = "lines" /\ lineno < Len(input_lines)

NextLine == input_lines[lineno + 1]

\* the next line is classified by block_type_and_match: it is neither a
\* TOC placeholder that is written nor a div marker
Classified ==
    /\ ~(IsTocLiteral(AdjustedLine(Now, NextLine)) /\ bp.toc.set)
    /\ ~IsDivLine(AdjustedLine(Now, NextLine))

\* the kind block_type_and_match gives the next line ("none": a fence)
NextLineKind ==
    BlockTypeOf(adjust_blockquote_level(Now, Stream(pass), NextLine.bq),
                AdjustedLine(Now, NextLine))

\* a line that does not continue the line before it has a kind that differs
\* from the kind of the open multi-line block
KindDiffers ==
    /\ AtLine
    /\ ~bp.continued_line
    /\ bp.current_block.block_type \in MULTILINE_BLOCK_TYPES
    /\ Classified
    /\ NextLineKind \notin {"none", bp.current_block.block_type}

\* a blank line read at blockquote depth 1 or more: the loop skips it
SkippedBlankLine == NextLineKind = "_empty" /\ NextLine.bq > 0

IsPrefix(s, t) == Len(s) <= Len(t) /\ SubSeq(t, 1, Len(s)) = s

ClosedNow == BlockClose(Now, Stream(pass), bp.current_block)

UnopenedClose ==
    /\ AtToken
    /\ ReadAsMarkup
    /\ \/ NextToken = "##" /\ ~parser.color
       \/ NextToken = "[[/span]]" /\ parser.span_depth = 0

IsMathEv(e) == e.ev = "block" /\ e.typ = "math"

\* the Header and the Math blocks the running pass has created and closed,
\* in the order of their creation
HeadersOfPass == SelectSeq(PassStream, IsHeaderEv)

MathsOfPass == SelectSeq(PassStream, IsMathEv)

\* 1 when the open block is of the type, 0 otherwise
OpenBlocks(block_type) == IF bp.current_block.block_type = block_type THEN 1 ELSE 0

\* C16: in each pass the k-th Header block created has anchor number k - 1
\* and the k-th Math block created has equation number k, the open block
\* included; the counters are the numbers the next Header and the next Math
\* block get, so pass 2 starts again from 0 and from 1.
C16_NumbersCountBlocksOfPass ==
    /\ \A k \in DOMAIN HeadersOfPass : HeadersOfPass[k].num = k - 1
    /\ \A k \in DOMAIN MathsOfPass : MathsOfPass[k].num = k
    /\ bp.current_block.block_type = "_hn"
           => bp.current_block.toc_number = Len(HeadersOfPass)
    /\ bp.current_block.block_type = "math"
           => bp.current_block.eqn_number = Len(MathsOfPass) + 1
    /\ wikidot.next_toc_number = Len(HeadersOfPass) + OpenBlocks("_hn")
    /\ wikidot.next_eqn_number = Len(MathsOfPass) + OpenBlocks("math") + 1

\* C16 witness: pass 1 created two Header blocks and a Math block, and in
\* pass 2 the first Header block got anchor number 0 again and the Math
\* block got equation number 1 again.
C16_Witness ==
    /\ pc = "done"
    /\ Len(SelectSeq(nul, IsHeaderEv)) = 2
    /\ Len(SelectSeq(nul, IsMathEv)) = 1
    /\ Len(HeadersOfPass) = 2
    /\ HeadersOfPass[1].num = 0
    /\ Len(MathsOfPass) = 1
    /\ MathsOfPass[1].num = 1

\* the target begins with one or more lower-case letters followed by ':'
BeginsWithScheme(h) ==
    \E n \in 1..(Len(h) - 1) :
        /\ \A i \in 1..n : h[i] \in LowerCase
        /\ h[n + 1] = ":"

AllSlashes(s) == \A i \in DOMAIN s : s[i] = "/"

\* s without the '/' at its end: the prefix of s that does not end with '/'
\* and is followed by nothing but '/'
WithoutTrailingSlashes(s) ==
    CHOOSE t \in {SubSeq(s, 1, n) : n \in 0..Len(s)} :
        /\ t = <<>> \/ t[Len(t)] # "/"
        /\ AllSlashes(SubSeq(s, Len(t) + 1, Len(s)))

\* s without the '/' at its start
WithoutLeadingSlashes(s) ==
    CHOOSE t \in {SubSeq(s, n + 1, Len(s)) : n \in 0..Len(s)} :
        /\ t = <<>> \/ t[1] # "/"
        /\ AllSlashes(SubSeq(s, 1, Len(s) - Len(t)))

\* C17: a link shows its target unchanged when the target begins with a
\* scheme or with '#'; otherwise it shows the link prefix without the '/'
\* at its end, then '/', then the target without the '/' at its start,
\* then the link suffix.
C17_LinkTarget ==
    l_pc = "done" =>
        IF BeginsWithScheme(href) \/ href[1] = "#"
        THEN l_out = href
        ELSE l_out = WithoutTrailingSlashes(link_prefix) \o <<"/">>
                         \o WithoutLeadingSlashes(href) \o link_suffix

\* C17 witness: a target that begins with an upper-case letter and a colon
\* is not taken for a scheme, and the slashes between a prefix that ends
\* with '/' and a target that begins with '/' became one; and a target that
\* begins with a scheme was shown unchanged under a non-empty prefix.
C17_Witness ==
    /\ l_pc = "done"
    /\ link_prefix = <<"a", "/">>
    /\ link_suffix = <<"a">>
    /\ \/ href = <<"/", "Z", ":">> /\ l_out = <<"a", "/", "Z", ":", "a">>
       \/ href = <<"a", ":", "/">> /\ l_out = href

\* the next line is handed to a block: it is classified, it is not a fence
\* of the open code or math block and not a blank line inside a blockquote
ReachesDispatch ==
    /\ AtLine
    /\ Classified
    /\ NextLineKind # "none"
    /\ ~SkippedBlankLine

\* C18: after a line that reaches block dispatch, continued_line is true
\* exactly when the input line, with its blockquote markers, ends with ' _'.
C18_ContinuedLineFromRawLine ==
    [][(ReachesDispatch /\ pc' = "lines")
       => bp'.continued_line = NextLine.br]_vars

\* the line before the next one was at depth 0 and ended with ' _', a block
\* is open, and the next line is at depth 0 and neither a div marker nor a
\* TOC placeholder
AfterContinuedLine ==
    /\ AtLine
    /\ lineno >= 1
    /\ input_lines[lineno].bq = 0
    /\ input_lines[lineno].br
    /\ bp.current_block.block_type # "none"
    /\ NextLine.bq = 0
    /\ NextLine.kind \notin {"divstart", "divend", "toc"}

\* C19: the line after a line at depth 0 that ends with ' _' and leaves a
\* block open is appended to that block whatever its kind (when it is at
\* depth 0 and neither a div marker nor a TOC placeholder): the block stays
\* the open block, with the line as its last line, and nothing is written.
C19_ContinuationIsAppended ==
    [][AfterContinuedLine
       => /\ pc' = "lines"
          /\ bp'.current_block.block_type = bp.current_block.block_type
          /\ bp'.current_block.linenos = Append(bp.current_block.linenos, lineno + 1)
          /\ out' = out
          /\ nul' = nul]_vars

\* a code or math block is open and the next line is not a fence marker
InsideFencedBlock ==
    /\ AtLine
    /\ bp.current_block.block_type \in {"code", "math"}
    /\ NextLine.kind \notin {"codestart", "codeend", "mathstart", "mathend"}

\* C20: while a code or math block is open, a line that is not a fence
\* marker is appended to the block as it was read, blockquote markers
\* included; the block stays open and nothing is written, in both passes.
C20_FencedContentIsVerbatim ==
    [][InsideFencedBlock
       => /\ pc' = "lines"
          /\ line' = RawLine(NextLine)
          /\ bp'.current_block.block_type = bp.current_block.block_type
          /\ bp'.current_block.linenos = Append(bp.current_block.linenos, lineno + 1)
          /\ bp'.bq_level = bp.bq_level
          /\ bp'.divs = bp.divs
          /\ out' = out
          /\ nul' = nul]_vars

\* the driver after adjust_blockquote_level has read the next line
Adjusted == adjust_blockquote_level(Now, Stream(pass), NextLine.bq)

\* the next line is handed to block_type_and_match while a block of the
\* type is open, and it is the fence-open or the fence-close marker
FenceOpenFed ==
    /\ AtLine
    /\ \/ /\ Adjusted.bp.current_block.block_type = "code"
          /\ MatchesCodeStart(AdjustedLine(Now, NextLine))
       \/ /\ Adjusted.bp.current_block.block_type = "math"
          /\ MatchesMathStart(AdjustedLine(Now, NextLine))

FenceCloseFed ==
    /\ AtLine
    /\ \/ /\ Adjusted.bp.current_block.block_type = "code"
          /\ MatchesCodeEnd(AdjustedLine(Now, NextLine))
       \/ /\ Adjusted.bp.current_block.block_type = "math"
          /\ MatchesMathEnd(AdjustedLine(Now, NextLine))

\* C21: a fence-open line fed to an open code or math block adds one to
\* input_nesting_level and to output_nesting_level and is not stored; a
\* fence-close line takes one from input_nesting_level when it is positive
\* and closes the block otherwise; input_nesting_level is never negative
\* and never more than output_nesting_level.
C21_FenceNesting ==
    [][/\ FenceOpenFed
          => bp'.current_block =
                 [bp.current_block EXCEPT !.input_nesting_level = @ + 1,
                                          !.output_nesting_level = @ + 1]
       /\ FenceCloseFed
          => IF bp.current_block.input_nesting_level > 0
             THEN bp'.current_block =
                      [bp.current_block EXCEPT !.input_nesting_level = @ - 1]
             ELSE /\ bp'.current_block = NoBlock
                  /\ Len(IF pass = 1 THEN nul' ELSE out') = Len(PassStream) + 1
       /\ bp'.current_block.input_nesting_level >= 0
       /\ bp'.current_block.input_nesting_level
              <= bp'.current_block.output_nesting_level]_vars

\* C21 witness: a nested fence was opened and closed inside a code block,
\* which is still open.
C21_Witness ==
    /\ pc = "lines"
    /\ bp.current_block.block_type = "code"
    /\ bp.current_block.input_nesting_level = 0
    /\ bp.current_block.output_nesting_level = 1

\* the token before the next one is not white space
AfterNonSpace ==
    i_tok >= 1 /\ ~RX_WHITESPACE(i_lines[i_line + 1].content[i_tok])

\* the next token is a closing marker that closes the style of the class
Closes(cls) ==
    /\ AtToken
    /\ ReadAsMarkup
    /\ \/ cls = "Bold" /\ NextToken = "**" /\ parser.bold /\ AfterNonSpace
       \/ cls = "Italic" /\ NextToken = "//" /\ parser.italic /\ AfterNonSpace
       \/ cls = "Span" /\ NextToken = "[[/span]]" /\ parser.span_depth > 0
       \/ cls = "Color" /\ NextToken = "##" /\ parser.color

\* the place on the stack of the innermost node of the class
Innermost(cls) ==
    CHOOSE k \in DOMAIN parser.nodes :
        /\ parser.heap[parser.nodes[k]].cls = cls
        /\ \A j \in (k + 1)..Len(parser.nodes) : parser.heap[parser.nodes[j]].cls # cls

\* the stack after the innermost node of the class was closed: the nodes
\* below it stay, and each node above it is replaced by a fresh open node
\* of its class
ReopenedAbove(cls) ==
    /\ Len(parser'.nodes) = Len(parser.nodes) - 1
    /\ \A k \in 1..(Innermost(cls) - 1) : parser'.nodes[k] = parser.nodes[k]
    /\ \A k \in Innermost(cls)..(Len(parser.nodes) - 1) :
           /\ parser'.nodes[k] > Len(parser.heap)
           /\ parser'.heap[parser'.nodes[k]].cls = parser.heap[parser.nodes[k + 1]].cls
           /\ parser'.heap[parser'.nodes[k]].closure = OPEN_NODE

\* C22: when a closing marker closes a style, the nodes above the style's
\* node leave the stack with it, every style that was open above it is
\* open again on a fresh node, the flags and the span depth of the other
\* styles are what they were, and the parser has not failed.
C22_CloseRestoresStylesAbove ==
    [][\A cls \in {"Bold", "Italic", "Span", "Color"} :
           Closes(cls)
           => /\ i_pc' = "parse"
              /\ ReopenedAbove(cls)
              /\ parser'.bold = (parser.bold /\ cls # "Bold")
              /\ parser'.italic = (parser.italic /\ cls # "Italic")
              /\ parser'.color = (parser.color /\ cls # "Color")
              /\ parser'.span_depth
                     = parser.span_depth - (IF cls = "Span" THEN 1 ELSE 0)]_vars

\* the nodes of the class on the stack of the parser
OnStack(cls) ==
    Cardinality({k \in DOMAIN parser.nodes : parser.heap[parser.nodes[k]].cls = cls})

\* C23: while the parser has not failed, the flag of a style is set exactly
\* when one node of the style is on the stack, and for generic spans the
\* depth equals the number of span nodes on the stack.
C23_FlagsMatchStack ==
    i_pc \in {"parse", "done"} =>
        /\ parser.bold <=> OnStack("Bold") = 1
        /\ parser.italic <=> OnStack("Italic") = 1
        /\ parser.color <=> OnStack("Color") = 1
        /\ parser.size <=> OnStack("Size") = 1
        /\ parser.span_depth = OnStack("Span")

\* the doubled markers of the model, the style of each, and its flag
DoubledMarkers == {"//", "**", "{{", "}}"}

StyleOf(token) ==
    IF token = "//" THEN "Italic" ELSE IF token = "**" THEN "Bold" ELSE "FixedWidth"

Active(cls) ==
    IF cls = "Italic" THEN parser.italic
    ELSE IF cls = "Bold" THEN parser.bold
    ELSE parser.fixed_width

\* a token follows the next one and is not white space
BeforeNonSpace ==
    /\ i_tok + 2 <= Len(i_lines[i_line + 1].content)
    /\ ~RX_WHITESPACE(i_lines[i_line + 1].content[i_tok + 2])

\* the step put a node of the class on the stack; the step took one off
\* (or failed while doing so); the step added the token as text
Opened(cls) == i_pc' = "parse" /\ OnStack(cls)' > OnStack(cls)

Closed(cls) == i_pc' = "failed" \/ OnStack(cls)' < OnStack(cls)

AddedAsText ==
    /\ i_pc' = "parse"
    /\ parser'.nodes = parser.nodes
    /\ parser'.heap[Last(parser.nodes)].children
           = Append(parser.heap[Last(parser.nodes)].children, Child(0, NextToken))

\* C24: a doubled marker opens its style only when the style is inactive
\* and the token after it exists and is not white space, closes it only
\* when the style is active and the token before it exists and is not
\* white space, and in every other case is added as text.
C24_DoubledMarker ==
    [][\A cls \in {"Italic", "Bold", "FixedWidth"} :
           (AtToken /\ ReadAsMarkup /\ NextToken \in DoubledMarkers
                    /\ cls = StyleOf(NextToken))
           => /\ Opened(cls) => ~Active(cls) /\ BeforeNonSpace /\ NextToken # "}}"
              /\ Closed(cls) => Active(cls) /\ AfterNonSpace /\ NextToken # "{{"
              /\ Opened(cls) \/ Closed(cls) \/ AddedAsText]_vars

\* the text at the scan position starts with a doubled marker, and not with
\* '[', '##', white space, '--]' or an escape character
AtDoubledMarker ==
    /\ lex_pc = "scan"
    /\ RX_DOUBLED_CHAR(lex.text)
    /\ ~StartsWith(lex.text, <<"-", "-", "]">>)

\* C25: where the text at the scan position starts with a doubled marker
\* (and with none of the patterns tested before it), the scanner emits the
\* two characters of the marker as one token and goes on after them,
\* whatever follows on the line.
C25_DoubledMarkerIsOneToken ==
    [][AtDoubledMarker
       => /\ lex'.tokens # <<>>
          /\ Last(lex'.tokens) = SubSeq(lex.text, 1, 2)
          /\ lex'.text = SubSeq(lex.text, 3, Len(lex.text))]_vars

\* the tokens of seq that are one of the two sentinels a and b
RECURSIVE Sentinels(_, _, _)
Sentinels(seq, a, b) ==
    IF seq = <<>> THEN <<>>
    ELSE IF seq[1] \in {a, b} THEN <<seq[1]>> \o Sentinels(Tail(seq), a, b)
    ELSE Sentinels(Tail(seq), a, b)

\* as many a as b, in the order a, b, a, b
Alternate(seq, a, b) ==
    /\ Len(seq) % 2 = 0
    /\ \A i \in DOMAIN seq : seq[i] = IF i % 2 = 1 THEN a ELSE b

\* the strings a token was made of
Spelled(token) ==
    IF token \in {LITERAL_START_TOKEN, LITERAL_END_TOKEN, "@@"} THEN <<"@", "@">>
    ELSE IF token \in {HTML_ENTITY_LITERAL_START_TOKEN, "@<"} THEN <<"@", "<">>
    ELSE IF token = HTML_ENTITY_LITERAL_END_TOKEN THEN <<">", "@">>
    ELSE <<token>>

RECURSIVE SpelledAll(_)
SpelledAll(tokens) ==
    IF tokens = <<>> THEN <<>> ELSE Spelled(tokens[1]) \o SpelledAll(Tail(tokens))

\* the @@ markers of a sequence of strings, counted from the left
Markers(strs) == count_literal_escapes(strs, 1, "")

\* C26: in the tokens token_lex returns for a line the literal sentinels
\* alternate start, end in equal numbers, and so do the HTML-entity-literal
\* sentinels; the @@ markers are paired from the left, and of an odd number
\* of markers the last one is left in the tokens as text.
C26_SentinelsArePaired ==
    tl_pc = "done"
    => /\ Alternate(Sentinels(tl.tokens, LITERAL_START_TOKEN, LITERAL_END_TOKEN),
                    LITERAL_START_TOKEN, LITERAL_END_TOKEN)
       /\ Alternate(Sentinels(tl.tokens, HTML_ENTITY_LITERAL_START_TOKEN,
                              HTML_ENTITY_LITERAL_END_TOKEN),
                    HTML_ENTITY_LITERAL_START_TOKEN, HTML_ENTITY_LITERAL_END_TOKEN)
       /\ Markers(str_tokens) % 2 = 1
          => Markers(SpelledAll(tl.tokens)) = Markers(str_tokens)

\* the next line is handed to analyze_line while the open block is a table:
\* the table is still open after adjust_blockquote_level, and the line does
\* not open a fenced block
AnalyzedInTable ==
    /\ AtLine
    /\ Classified
    /\ ~Adjusted.failed
    /\ Adjusted.bp.current_block.block_type = "table"
    /\ ~(/\ Adjusted.bp.bq_level = 0
         /\ \/ MatchesCodeStart(AdjustedLine(Now, NextLine))
            \/ MatchesMathStart(AdjustedLine(Now, NextLine)))

\* C27: while the open block is a table, analyze_line returns table row,
\* blank line or paragraph for every line, and never list item, heading or
\* horizontal rule.
C27_TableLinesAreRowsOrText ==
    AnalyzedInTable => NextLineKind \in {"table", "_empty", "p"}

\* a line with the shape of a list item, a heading or a horizontal rule is
\* classified while a table is open
C27_Witness ==
    /\ AnalyzedInTable
    /\ NextLine.kind \in {"ul", "hn", "hr"}
    /\ NextLineKind = "p"

\* the writes of out, up to the n-th, whose text is one of ts
RECURSIVE CountOf(_, _, _)
CountOf(out_seq, ts, n) ==
    IF n = 0 THEN 0
    ELSE CountOf(out_seq, ts, n - 1) + (IF out_seq[n].t \in ts THEN 1 ELSE 0)

\* the kinds of the lists the first n writes of out leave open, innermost last
RECURSIVE OpenLists_of(_, _)
OpenLists_of(out_seq, n) ==
    IF n = 0 THEN <<>>
    ELSE LET before == OpenLists_of(out_seq, n - 1)
         IN IF out_seq[n].t = "<ul>" THEN Append(before, "ul")
            ELSE IF out_seq[n].t = "<ol>" THEN Append(before, "ol")
            ELSE IF out_seq[n].t \in {"</ul>", "</ol>"} /\ before # <<>>
            THEN SubSeq(before, 1, Len(before) - 1)
            ELSE before

\* the close tag written as the n-th write has the kind of the innermost
\* list open before it
ClosesInnermost(out_seq, n) ==
    LET before == OpenLists_of(out_seq, n - 1)
    IN /\ before # <<>>
       /\ out_seq[n].t = "</" \o before[Len(before)] \o ">"

\* C28: List.close writes as many list close tags as list open tags and as
\* many </li> as <li>, each list close tag has the kind of the innermost
\* list still open, and after the last item no list and no item is open.
C28_ListTagsBalance ==
    ls_pc = "done"
    => /\ ~lst.failed
       /\ CountOf(lst.out, {"<ul>", "<ol>"}, Len(lst.out))
              = CountOf(lst.out, {"</ul>", "</ol>"}, Len(lst.out))
       /\ CountOf(lst.out, {"<li>"}, Len(lst.out))
              = CountOf(lst.out, {"</li>"}, Len(lst.out))
       /\ \A n \in DOMAIN lst.out :
              lst.out[n].t \in {"</ul>", "</ol>"} => ClosesInnermost(lst.out, n)
       /\ lst.opened_lists = <<>>
       /\ \A i \in DOMAIN lst.inside_line : ~lst.inside_line[i]

\* a block whose items go two levels deeper at once and come back
C28_Witness ==
    /\ ls_pc = "done"
    /\ \E i \in 1..(Len(lst.node_tag_indent) - 2) :
           /\ lst.node_tag_indent[i].indent + 2 = lst.node_tag_indent[i + 1].indent
           /\ lst.node_tag_indent[i + 1].indent > lst.node_tag_indent[i + 2].indent
    /\ CountOf(lst.out, {"<ul>", "<ol>"}, Len(lst.out)) >= 3

\* the items written to out that hold line i
ItemsOf(i) ==
    {n \in DOMAIN lst.out :
        /\ lst.out[n].t = "content"
        /\ \E j \in DOMAIN lst.out[n].node : lst.out[n].node[j] = i}

\* the item written as the n-th write is a line and, before it, the lines
\* that end with the continuation marker, each followed by a line break
IsItem(node) ==
    /\ Len(node) % 2 = 1
    /\ ~ls_matches[node[Len(node)]].br
    /\ \A j \in 1..(Len(node) - 1) :
           IF j % 2 = 1
           THEN ls_matches[node[j]].br /\ node[j + 2] = node[j] + 1
           ELSE node[j] = 0

\* C29: every line of a list block belongs to exactly one rendered item, a
\* line that ends with the continuation marker together with a line break
\* and the line after it, also when the last line of the block ends with
\* the continuation marker.
C29_EveryLineIsInOneItem ==
    ls_pc = "done"
    => /\ \A n \in DOMAIN lst.out :
              lst.out[n].t = "content" => IsItem(lst.out[n].node)
       /\ \A i \in DOMAIN ls_matches : Cardinality(ItemsOf(i)) = 1

\* the next line has a blockquote depth that differs from the current level
\* while a block other than a code block is open
DepthChanges ==
    /\ AtLine
    /\ bp.current_block.block_type \notin {"none", "code"}
    /\ NextLine.bq # bp.bq_level

\* the blockquote tags of the change of depth
BlockquoteTags ==
    IF NextLine.bq > bp.bq_level
    THEN Repeat(Tag("blockquote"), NextLine.bq - bp.bq_level)
    ELSE Repeat(Tag("/blockquote"), bp.bq_level - NextLine.bq)

\* the stream of the running pass once the open block is closed
ClosedStream == IF pass = 1 THEN ClosedNow.nul ELSE ClosedNow.out

\* the lines all have the same blockquote depth
SameDepth(linenos) ==
    \A i, j \in DOMAIN linenos :
        input_lines[linenos[i]].bq = input_lines[linenos[j]].bq

\* no block other than a code block, open or written, holds lines of two depths
OneDepthPerBlock ==
    /\ bp.current_block.block_type \notin {"none", "code"}
           => SameDepth(bp.current_block.linenos)
    /\ \A i \in DOMAIN PassStream :
           (PassStream[i].ev \in {"block", "partial"} /\ PassStream[i].typ # "code")
           => SameDepth(PassStream[i].ents)

\* C30: when the blockquote depth of a line differs from the current level,
\* the open block, unless it is a code block, is closed and written before
\* the blockquote tags of the change (closing it can only fail as closing a
\* malformed table fails, and then no tag is written); hence no block other
\* than a code block holds lines of two depths.
C30_BlockClosedBeforeBlockquoteTags ==
    /\ []OneDepthPerBlock
    /\ [][DepthChanges
          => IF ClosedNow.failed
             THEN pc' = "failed" /\ PassStream' = ClosedStream
             ELSE /\ IsPrefix(ClosedStream \o BlockquoteTags, PassStream')
                  /\ bp'.bq_level = NextLine.bq
                  /\ \/ bp'.current_block = NoBlock
                     \/ bp'.current_block.linenos = <<lineno + 1>>]_vars

\* C30 witness: a paragraph of two lines was written, then the tag of the
\* deeper level, and the quoted line opened a block of its own
C30_Witness ==
    /\ pc = "lines"
    /\ pass = 2
    /\ lineno = 3
    /\ input_lines[1].bq = 0 /\ input_lines[2].bq = 0 /\ input_lines[3].bq = 1
    /\ Len(out) = 2
    /\ out[1].ev = "block" /\ out[1].typ = "p" /\ out[1].ents = <<1, 2>>
    /\ out[2] = Tag("blockquote")
    /\ bp.current_block.linenos = <<3>>

\* C31: at every point of the rendered output the </div> tags written do not
\* exceed the <div> tags written: a [[/div]] line with no div of the document
\* open writes no tag.
C31_NoUnmatchedDivClose ==
    \A n \in 0..Len(out) :
        Count(SubSeq(out, 1, n), "/div") <= Count(SubSeq(out, 1, n), "div")

\* pass 2 is about to read its first line
Pass2Starts == pass = 2 /\ pc = "lines" /\ lineno = 0

\* C32: when pass 2 starts the driver state is the state at the start of
\* pass 1: no open block, blockquote level 0, continuation flag false and an
\* empty div stack.
C32_Pass2StartsFromInitialState ==
    Pass2Starts
    => /\ bp.current_block = NewBlockParser.current_block
       /\ bp.bq_level = NewBlockParser.bq_level
       /\ bp.continued_line = NewBlockParser.continued_line
       /\ bp.divs = NewBlockParser.divs

\* C33: a fatal failure is raised during pass 1, so a conversion that failed
\* has written nothing to the caller's stream.
C33_FailuresAreRaisedInPass1 == pc = "failed" => pass = 1 /\ out = <<>>

\* the writes that carry the line they start on: blocks and tables of contents
StartsOnLine(e) == e.ev \in {"block", "partial", "toc"}

\* C34: the rendered output follows the input order: what starts on an
\* earlier input line is written before what starts on a later line, so a
\* table of contents is written after every block that starts above its
\* placeholder line.
C34_OutputFollowsInputOrder ==
    \A i, j \in DOMAIN out :
        (i < j /\ StartsOnLine(out[i]) /\ StartsOnLine(out[j]))
        => out[i].at < out[j].at

\* the last position of seq that holds x, 0 when none does
RECURSIVE LastIndexOf(_, _)
LastIndexOf(seq, x) ==
    IF seq = <<>> THEN 0
    ELSE IF seq[Len(seq)] = x THEN Len(seq)
    ELSE LastIndexOf(SubSeq(seq, 1, Len(seq) - 1), x)

\* seq without its element at position k
Without(seq, k) == SubSeq(seq, 1, k - 1) \o SubSeq(seq, k + 1, Len(seq))

\* the containers the first n writes of a stream leave open, innermost last:
\* a close tag closes the innermost open container of its kind
RECURSIVE OpenContainers(_, _)
OpenContainers(seq, n) ==
    IF n = 0 THEN <<>>
    ELSE LET before == OpenContainers(seq, n - 1)
         IN IF seq[n].ev \in {"blockquote", "div"} THEN Append(before, seq[n].ev)
            ELSE IF seq[n].ev = "/blockquote" /\ LastIndexOf(before, "blockquote") > 0
            THEN Without(before, LastIndexOf(before, "blockquote"))
            ELSE IF seq[n].ev = "/div" /\ LastIndexOf(before, "div") > 0
            THEN Without(before, LastIndexOf(before, "div"))
            ELSE before

\* the n-th write closes a container of the kind while a container of the
\* other kind, opened inside it, is still open
ClosesAcross(seq, n, kind) ==
    LET before == OpenContainers(seq, n - 1)
    IN /\ seq[n].ev = "/" \o kind
       /\ LastIndexOf(before, kind) > 0
       /\ LastIndexOf(before, kind) < Len(before)

\* C35: in the rendered output a </blockquote> is never written while a div
\* opened inside that blockquote is open, and a </div> is never written
\* while a blockquote opened inside that div is open.
C35_ContainersAreNested ==
    \A n \in DOMAIN out :
        ~ClosesAcross(out, n, "blockquote") /\ ~ClosesAcross(out, n, "div")

\* C36: when table rendering finishes without a fatal error, every <tr>
\* written has its </tr> and no cell is left started when </table> is written.
C36_RowsAndCellsClosedAtTableEnd ==
    (t_pc = "done" /\ ~table.failed)
    => /\ Count(table.out, "tr") = Count(table.out, "/tr")
       /\ ~table.inside_cell

\* the tokens of a line put end to end
RECURSIVE ConcatTokens(_)
ConcatTokens(tokens) ==
    IF tokens = <<>> THEN <<>> ELSE tokens[1] \o ConcatTokens(Tail(tokens))

\* C37: the tokens str_lex returns, concatenated in order, are the text it
\* was given: no character is dropped, duplicated or reordered.
C37_TokensConcatenateToText ==
    lex_pc = "done" => ConcatTokens(lex.tokens) = lex_text

\* C38: token_lex neither drops nor adds text: with every sentinel and
\* marker of its tokens spelled as the two strings it was made of, the
\* tokens are the strings str_lex returned, in order.
C38_GrouperKeepsText ==
    tl_pc = "done" => SpelledAll(tl.tokens) = str_tokens

\* a step of pass 2 closes the open paragraph: the block is gone from
\* BlockParser.current_block and nothing was raised
ParagraphClosed ==
    /\ pass = 2
    /\ pc = "lines"
    /\ pc' # "failed"
    /\ bp.current_block.block_type = "p"
    /\ \/ bp'.current_block.linenos = <<>>
       \/ bp'.current_block.linenos[1] # bp.current_block.linenos[1]

\* some line of the block has content that is not blank
HasContent(b) == \E i \in DOMAIN b.matches : b.matches[i] # <<>>

\* the step wrote the block b to the output
Wrote(b) ==
    \E k \in (Len(out) + 1)..Len(out') :
        out'[k].ev = "block" /\ out'[k].typ = "p" /\ out'[k].at = b.linenos[1]

\* C39: a paragraph block is written when it is closed if at least one of
\* its lines has content that is not blank; it is omitted only when all of
\* its lines are blank.
C39_ParagraphWithContentIsWritten ==
    [][(ParagraphClosed /\ HasContent(bp.current_block)) => Wrote(bp.current_block)]_vars

\* ------------------------------------------------------- highlight claims
\* what the filter is to write for the text t read with the highlight hl
\* and the escape span esc open: the text without the opening and the
\* closing marker of every highlight that is not gray and is outside the
\* escape spans
RECURSIVE Filtered(_, _, _)
Filtered(t, hl, esc) ==
    IF t = <<>> THEN <<>>
    ELSE IF esc = AtAt
    THEN IF StartsWith(t, AtAt) THEN AtAt \o Filtered(From(t, 3), hl, <<>>)
         ELSE <<t[1]>> \o Filtered(Tail(t), hl, esc)
    ELSE IF esc = AtLt
    THEN IF StartsWith(t, GtAt) THEN GtAt \o Filtered(From(t, 3), hl, <<>>)
         ELSE <<t[1]>> \o Filtered(Tail(t), hl, esc)
    ELSE IF StartsWith(t, AtAt) THEN AtAt \o Filtered(From(t, 3), hl, AtAt)
    ELSE IF StartsWith(t, AtLt) THEN AtLt \o Filtered(From(t, 3), hl, AtLt)
    ELSE IF hl = "None" /\ ColorHead(t)
    THEN IF SubSeq(t, 1, 3) = GrayHead
         THEN GrayHead \o Filtered(From(t, 4), "gray", esc)
         ELSE Filtered(From(t, 4), "not gray", esc)
    ELSE IF StartsWith(t, HashHash)
    THEN (IF hl = "not gray" THEN <<>> ELSE HashHash) \o Filtered(From(t, 3), "None", esc)
    ELSE <<t[1]>> \o Filtered(Tail(t), hl, esc)

\* the filter has read all of its input and written the filtered text
FilteredOutput == hl_pc = "done" => hl_out = Filtered(hl_text, "None", <<>>)

\* C40: the filter writes its input without the opening ##color| and the
\* closing ## of every highlight that is not gray and is outside the escape
\* spans, copies gray highlights and escape spans unchanged, on every input,
\* and never changes the highlight state inside an escape span.
C40_FilterStripsHighlights ==
    /\ [](hl_pc # "failed" /\ FilteredOutput)
    /\ [][escape # <<>> => highlight' = highlight]_vars

====
